---- MODULE Spec2Model ----
(***************************************************************************)
(* SwornDisk disk layer (core/src/layers/5-disk): the LBA -> HBA           *)
(* indirection engine, the block allocator with its segment table, the     *)
(* TX listener, the garbage collector and the GC/compaction/I-O barrier.   *)
(*                                                                         *)
(* Three specifications share the variables:                               *)
(*   Spec        the disk as a whole, one atomic action per public         *)
(*               operation (write, writev, sync, read, reopen) and per     *)
(*               background step (LSM compactions, one GC worker pass);    *)
(*   SpecAlloc   the AllocTable driven directly, as its unit tests do;     *)
(*   SpecBarrier the SharedState barrier with a GC worker, a compaction    *)
(*               thread and foreground I/O threads interleaved at the      *)
(*               granularity of the mutex-protected sections.              *)
(* Sizes are scaled down: a segment has SEGMENT_SIZE blocks instead of     *)
(* 1024 and the data buffer holds DATA_BUF_CAP blocks instead of 1024.     *)
(***************************************************************************)
EXTENDS Integers, Naturals, Sequences, FiniteSets, TLC

\* ------------------------------------------------------------------ bounds
SEGMENT_SIZE == 2
NSegs == 2
NLba == 2
DATA_BUF_CAP == 2
MaxWrites == 4
MaxSsts == 2
MaxAllocOps == 4
MaxRounds == 2
MaxCallWrites == 5
MaxPasses == 3
MaxFault == 8

\* ------------------------------------------------------- program constants
GC_WATERMARK == 16
ACTIVE_GC_THRESHOLD_TENTHS == 6
INACTIVE_GC_THRESHOLD_TENTHS == 1
TAG_ALLOC == 3
TAG_DEALLOC == 7

NBLOCKS == NSegs * SEGMENT_SIZE
HBAs == 0..(NBLOCKS - 1)
\* SwornDisk::total_blocks: the user-data disk has as many logical blocks as
\* host blocks.  The disk's specification writes and reads the first NLba.
total_blocks == NBLOCKS
LBAs == 0..(total_blocks - 1)
SegIds == 0..(NSegs - 1)

NoHba == 0 - 1
NoLba == 0 - 1
NoRec == [hba |-> NoHba, key |-> 0, mac |-> 0]
NoData == [key |-> 0, data |-> 0]
EmptyRead == 0
DecryptErr == 0 - 1

Min(S) == CHOOSE x \in S : \A y \in S : x <= y

RECURSIVE SortedSeq(_)
SortedSeq(S) == IF S = {} THEN <<>> ELSE <<Min(S)>> \o SortedSeq(S \ {Min(S)})

Range(q) == {q[i] : i \in 1..Len(q)}

\* An AtomicUsize counter is kept as a small signed integer: a negative value
\* v stands for the wrapped value 2^64 + v.
\* ------------------------------------------------------------- encryption
\* Aead::encrypt with a per-block key: the ciphertext is bound to the key, the
\* MAC to key and plaintext; decrypt returns the plaintext only when the MAC
\* of the block under that key matches.
MacOf(key, data) == key * (MaxWrites + 1) + data
Encrypt(data, key) == [cipher |-> [key |-> key, data |-> data], mac |-> MacOf(key, data)]
Decrypt(cipher, key, mac) ==
    IF cipher.key = key /\ MacOf(cipher.key, cipher.data) = mac
    THEN cipher.data
    ELSE DecryptErr

\* ----------------------------------------------------------------- BitMap
first_one(bm, from) ==
    LET c == {i \in HBAs : i >= from /\ bm[i]}
    IN IF c = {} THEN NoHba ELSE Min(c)

\* The first `count` set bits at or after `from`, ascending; <<>> when fewer.
first_ones(bm, from, count) ==
    LET c == SortedSeq({i \in HBAs : i >= from /\ bm[i]})
    IN IF Len(c) < count THEN <<>> ELSE SubSeq(c, 1, count)

count_ones(bm) == Cardinality({i \in HBAs : bm[i]})

\* ---------------------------------------------------------------- Segment
Segment_new == [valid_block |-> SEGMENT_SIZE, free_space |-> SEGMENT_SIZE]

mark_alloc(seg) == [seg EXCEPT !.free_space = @ - 1]

\* A mark_deallocated that leaves valid_block as it is.
mark_deallocated_space(seg) == [seg EXCEPT !.free_space = @ + 1]

mark_deallocated(seg) ==
    [seg EXCEPT !.free_space = @ + 1, !.valid_block = @ - 1]

Segment_clear_segment(seg) ==
    [seg EXCEPT !.valid_block = SEGMENT_SIZE, !.free_space = SEGMENT_SIZE]

num_invalid_blocks(seg) == SEGMENT_SIZE - seg.valid_block

SegOf(hba) == hba \div SEGMENT_SIZE

find_all_allocated_blocks(bm, sid) ==
    SortedSeq({h \in DOMAIN bm : SegOf(h) = sid /\ ~bm[h]})

find_all_free_blocks(bm, sid) ==
    SortedSeq({h \in HBAs : SegOf(h) = sid /\ bm[h]})


\* ------------------------------------------------------------------ state
VARIABLES
    enable_gc,      \* CONFIG.enable_gc / the enable_gc argument of create and open
    data_buf,       \* DataBuf: insertion-ordered sequence of [lba, data]
    memtable,       \* forward index, MemTable: LBA -> record or NoRec
    ssts,           \* forward index, on-disk SSTs, newest first
    rit,            \* reverse index: HBA -> LBA or NoLba
    dealloc_table,  \* DeallocTable: HBA -> BOOLEAN
    disk,           \* user_data_disk: HBA -> cipher block or NoData
    bitmap,         \* AllocTable.bitmap: HBA -> BOOLEAN, TRUE = free
    num_free,       \* AllocTable.num_free
    next_avail,     \* AllocTable.next_avail
    segs,           \* AllocTable.segment_table: SegId -> Segment counters
    is_dirty,       \* AllocTable.is_dirty
    is_active,      \* DiskInner.is_active
    bvt,            \* persisted BVT snapshot: <<>> or <<bitmap>>
    seg_log,        \* persisted SEG snapshot: <<>> or <<segment table>>
    bal,            \* persisted BAL diff logs, oldest first
    p_wal,          \* forward-index records made durable by the last sync
    nkeys,          \* number of per-block keys drawn so far
    nwrites,        \* number of blocks written so far (each carries a fresh payload)
    last,           \* history: LBA -> payload of the last write of this session, 0 = none
    durable,        \* history: LBA -> payload of the last write before the last sync
    phase,          \* history: "run", "synced" (sync just returned), "reopened" (open right after a sync)
    rd,             \* outcome of the last read: <<>> or <<lba, n, result, expected>>
    gc_in_progress,         \* SharedState.gc_in_progress
    compaction_in_progress, \* SharedState.compaction_in_progress
    pc,             \* threads: thread -> location
    rounds,         \* threads: thread -> completed rounds
    gc_mode,        \* barrier: which caller of the barrier the GC thread is
    earlier,        \* history: the compaction in progress began before the last start_gc
    nops,           \* allocator driven directly: number of operations issued
    ret,            \* the last call recorded: <<>> or <<name, arguments..., outcome>>
    write_sync_region,  \* DiskInner.write_sync_region: [readers, writer]
    is_dropped,     \* DiskInner.is_dropped
    CONFIG,         \* the process-wide ConfigCell: [initialized, value]
    built,          \* what the last create or open built: <<>> or a record
    set_first,      \* history: the configurations of the first set called and of
                    \* the first set completed, each <<>> or <<config>>
    cursor          \* LoopScanVictimPolicy.cursor

diskVars == <<enable_gc, data_buf, memtable, ssts, rit, dealloc_table, disk, bitmap,
              num_free, next_avail, segs, is_dirty, is_active, bvt, seg_log, bal, p_wal,
              nkeys, nwrites, last, durable, phase, rd>>
storeVars == <<enable_gc, data_buf, memtable, ssts, rit, dealloc_table, disk, bitmap,
               num_free, next_avail, segs, is_dirty, is_active, bvt, seg_log, bal, p_wal,
               nkeys>>
barrierVars == <<gc_in_progress, compaction_in_progress, pc, rounds, gc_mode, earlier>>
configVars == <<is_dropped, CONFIG, built, set_first, cursor>>
vars == <<diskVars, barrierVars, nops, ret, write_sync_region, configVars>>

\* The disk state as one record, threaded through the operators below.  Two
\* fields belong to the operation under way and to no variable: `calls`, the
\* log of the calls it has made so far, and `put_fault`, the number of the
\* TxLsmTree::put of the forward index that is to fail (0: none fails).
St ==
    [enable_gc |-> enable_gc, data_buf |-> data_buf, memtable |-> memtable, ssts |-> ssts,
     rit |-> rit, dealloc_table |-> dealloc_table, disk |-> disk, bitmap |-> bitmap,
     num_free |-> num_free, next_avail |-> next_avail, segs |-> segs, is_dirty |-> is_dirty,
     is_active |-> is_active, bvt |-> bvt, seg_log |-> seg_log, bal |-> bal, p_wal |-> p_wal,
     nkeys |-> nkeys, calls |-> <<>>, put_fault |-> 0]

\* The state with one more call in its log.
Logged(s, call) == [s EXCEPT !.calls = Append(@, call)]

Becomes(s) ==
    /\ enable_gc' = s.enable_gc
    /\ data_buf' = s.data_buf
    /\ memtable' = s.memtable
    /\ ssts' = s.ssts
    /\ rit' = s.rit
    /\ dealloc_table' = s.dealloc_table
    /\ disk' = s.disk
    /\ bitmap' = s.bitmap
    /\ num_free' = s.num_free
    /\ next_avail' = s.next_avail
    /\ segs' = s.segs
    /\ is_dirty' = s.is_dirty
    /\ is_active' = s.is_active
    /\ bvt' = s.bvt
    /\ seg_log' = s.seg_log
    /\ bal' = s.bal
    /\ p_wal' = s.p_wal
    /\ nkeys' = s.nkeys

\* ------------------------------------------------------------- AllocTable
AllFree == [h \in HBAs |-> TRUE]
NewSegmentTable == [i \in SegIds |-> Segment_new]

RECURSIVE mark_alloc_each(_, _)
mark_alloc_each(table, hbas) ==
    IF hbas = <<>> THEN table
    ELSE mark_alloc_each([table EXCEPT ![SegOf(Head(hbas))] = mark_alloc(@)], Tail(hbas))

ClearBits(bm, hbas) == [h \in HBAs |-> IF h \in Range(hbas) THEN FALSE ELSE bm[h]]

\* AllocTable::new
AllocTable_new(s) ==
    [s EXCEPT !.bitmap = AllFree, !.segs = NewSegmentTable, !.next_avail = 0,
              !.is_dirty = FALSE, !.num_free = NBLOCKS]

\* AllocTable::alloc: [s, hba], hba = NoHba when no slot is free.
alloc(s) ==
    LET h1 == first_one(s.bitmap, s.next_avail)
        hba == IF h1 # NoHba THEN h1 ELSE first_one(s.bitmap, 0)
    IN IF hba = NoHba THEN [s |-> s, hba |-> NoHba]
       ELSE [s |-> [s EXCEPT !.bitmap[hba] = FALSE,
                             !.segs = IF s.enable_gc
                                      THEN [@ EXCEPT ![SegOf(hba)] = mark_alloc(@)]
                                      ELSE @,
                             !.next_avail = hba + 1],
             hba |-> hba]

\* AllocTable::do_alloc_batch: [s, hbas], hbas = <<>> for None.
do_alloc_batch(s, count) ==
    LET wrap == s.next_avail + count > NBLOCKS
        fo == first_one(s.bitmap, 0)
        na == IF wrap THEN fo ELSE s.next_avail
        try1 == IF na = NoHba THEN <<>> ELSE first_ones(s.bitmap, na, count)
        hbas == IF wrap /\ fo = NoHba THEN <<>>
                ELSE IF try1 # <<>> THEN try1
                ELSE IF fo = NoHba THEN <<>>
                ELSE first_ones(s.bitmap, fo, count)
    IN IF hbas = <<>> THEN [s |-> s, hbas |-> <<>>]
       ELSE [s |-> [s EXCEPT !.bitmap = ClearBits(@, hbas),
                             !.next_avail = hbas[Len(hbas)] + 1],
             hbas |-> hbas]

\* An alloc_batch that leaves num_free as it is.
alloc_batch_uncounted(s, cnt) ==
    IF s.num_free < cnt \/ do_alloc_batch(s, cnt).hbas = <<>>
    THEN [s |-> Logged(s, <<"alloc_batch", cnt, "OutOfDisk">>), hbas |-> <<>>, ok |-> FALSE]
    ELSE [s |-> [do_alloc_batch(s, cnt).s EXCEPT
                     !.segs = IF s.enable_gc
                              THEN mark_alloc_each(@, do_alloc_batch(s, cnt).hbas)
                              ELSE @,
                     !.is_dirty = TRUE,
                     !.calls = Append(@, <<"alloc_batch", cnt, "Ok">>)],
          hbas |-> do_alloc_batch(s, cnt).hbas, ok |-> TRUE]

\* AllocTable::alloc_batch: [s, hbas, ok]; ok = FALSE is Err(OutOfDisk).
alloc_batch(s, cnt) ==
    IF s.num_free < cnt
    THEN [s |-> Logged(s, <<"alloc_batch", cnt, "OutOfDisk">>), hbas |-> <<>>, ok |-> FALSE]
    ELSE LET r == do_alloc_batch(s, cnt)
         IN IF r.hbas = <<>>
            THEN [s |-> Logged(s, <<"alloc_batch", cnt, "OutOfDisk">>), hbas |-> <<>>,
                  ok |-> FALSE]
            ELSE [s |-> [r.s EXCEPT !.segs = IF s.enable_gc
                                             THEN mark_alloc_each(@, r.hbas)
                                             ELSE @,
                                    !.num_free = @ - cnt,
                                    !.is_dirty = TRUE,
                                    !.calls = Append(@, <<"alloc_batch", cnt, "Ok">>)],
                  hbas |-> r.hbas, ok |-> TRUE]

\* AllocTable::migrate_batch
migrate_batch(s, hbas) ==
    [s EXCEPT !.segs = IF s.enable_gc THEN mark_alloc_each(@, hbas) ELSE @,
              !.bitmap = ClearBits(@, hbas)]

\* AllocTable::set_deallocated
set_deallocated(s, nth) ==
    [s EXCEPT !.bitmap[nth] = TRUE,
              !.segs = IF s.enable_gc
                       THEN [@ EXCEPT ![SegOf(nth)] = mark_deallocated(@)]
                       ELSE @,
              !.num_free = @ + 1]

\* AllocTable::clear_segment
clear_segment(s, segment_id, discard_count) ==
    [s EXCEPT !.num_free = @ + discard_count,
              !.bitmap = [h \in HBAs |-> IF SegOf(h) = segment_id THEN TRUE ELSE @[h]],
              !.segs = IF s.enable_gc
                       THEN [@ EXCEPT ![segment_id] = Segment_clear_segment(@)]
                       ELSE @]

\* ------------------------------------------------------------- BlockAlloc
\* diff_table: HBA -> 0 (no entry), TAG_ALLOC or TAG_DEALLOC.
EmptyDiff == [h \in HBAs |-> 0]

alloc_block(dt, block_id) == [dt EXCEPT ![block_id] = TAG_ALLOC]

dealloc_block(dt, block_id) == [dt EXCEPT ![block_id] = TAG_DEALLOC]

\* The diff log of one TX: one <<tag, hba>> record per entry, ascending HBA.
SerializeDiff(dt) ==
    LET hs == SortedSeq({h \in HBAs : dt[h] # 0})
    IN [i \in 1..Len(hs) |-> <<dt[hs[i]], hs[i]>>]

\* BlockAlloc::update_diff_log
update_diff_log(s, dt) ==
    IF dt = EmptyDiff THEN s
    ELSE [s EXCEPT !.bal = Append(@, SerializeDiff(dt))]

\* BlockAlloc::update_alloc_table
update_alloc_table(s, dt) ==
    LET de == {h \in HBAs : dt[h] = TAG_DEALLOC}
    IN [s EXCEPT !.bitmap = [h \in HBAs |-> IF h \in de THEN TRUE ELSE @[h]],
                 !.num_free = @ + Cardinality(de)]

\* AllocDiff::from(u8)
AllocDiff_from(value) ==
    IF value = 3 THEN "Alloc" ELSE IF value = 7 THEN "Dealloc" ELSE "Invalid"

\* The fallible operations of the TX of do_compaction, in the order of the
\* code; those on the SEG bucket exist only with a segment table.
CompactionSteps(s) ==
    IF s.enable_gc
    THEN <<"list_bvt", "delete_bvt", "list_seg", "delete_seg",
           "append_bvt", "append_seg", "list_bal", "delete_bal">>
    ELSE <<"list_bvt", "delete_bvt", "append_bvt", "list_bal", "delete_bal">>

\* list_logs_in, whose error `if let Ok(..)` drops with the deletions.
IsList(step) == step \in {"list_bvt", "list_seg", "list_bal"}

\* delete_log is called once per listed log: on an empty bucket, never.
CanFail(s, step) ==
    IF step = "delete_bvt" THEN s.bvt # <<>>
    ELSE IF step = "delete_seg" THEN s.seg_log # <<>>
    ELSE IF step = "delete_bal" THEN s.bal # <<>>
    ELSE TRUE

\* One operation of that TX on the logs of s.
CompactionStep(s, step) ==
    IF step = "delete_bvt" THEN [s EXCEPT !.bvt = <<>>]
    ELSE IF step = "delete_seg" THEN [s EXCEPT !.seg_log = <<>>]
    ELSE IF step = "append_bvt" THEN [s EXCEPT !.bvt = Append(@, s.bitmap)]
    ELSE IF step = "append_seg" THEN [s EXCEPT !.seg_log = Append(@, s.segs)]
    ELSE IF step = "delete_bal" THEN [s EXCEPT !.bal = <<>>]
    ELSE s

RECURSIVE RunCompactionSteps(_, _, _, _)
\* The closure of the TX: the operations in turn, number `fault` (0: none)
\* returning an error. The error of a list_logs_in skips the deletions of
\* its bucket, any other ends the closure: [s, ok, failed].
RunCompactionSteps(s, steps, fault, failed) ==
    IF steps = <<>> THEN [s |-> s, ok |-> TRUE, failed |-> failed]
    ELSE IF fault = 1 /\ CanFail(s, Head(steps))
    THEN IF IsList(Head(steps))
         THEN RunCompactionSteps(s, Tail(Tail(steps)), 0, TRUE)
         ELSE [s |-> s, ok |-> FALSE, failed |-> TRUE]
    ELSE RunCompactionSteps(CompactionStep(s, Head(steps)), Tail(steps),
                            IF fault = 0 THEN 0 ELSE fault - 1, failed)

\* Tx::abort: the logs of the store are those of the beginning of the TX.
tx_abort(s0, s1) == [s1 EXCEPT !.bvt = s0.bvt, !.seg_log = s0.seg_log, !.bal = s0.bal]

\* do_compaction past the closure of its TX, of result `r`, begun in s.
compaction_closed(s, r) ==
    IF r.ok
    THEN [s |-> [r.s EXCEPT !.is_dirty = FALSE], res |-> "Ok", failed |-> r.failed]
    ELSE [s |-> tx_abort(s, r.s), res |-> "TxAborted", failed |-> TRUE]

\* AllocTable::do_compaction in which operation number `fault` of the TX
\* returns an error (0: none): [s, res, failed].
do_compaction_tx(s, fault) ==
    IF ~s.is_dirty THEN [s |-> s, res |-> "Ok", failed |-> FALSE]
    ELSE compaction_closed(s, RunCompactionSteps(s, CompactionSteps(s), fault, FALSE))

\* AllocTable::do_compaction, no step failing.
do_compaction(s) == do_compaction_tx(s, 0).s

RECURSIVE ApplyDiffLog(_, _)
ApplyDiffLog(bm, log) ==
    IF log = <<>> THEN bm
    ELSE LET diff == AllocDiff_from(Head(log)[1])
             bid == Head(log)[2]
         IN ApplyDiffLog(IF diff = "Alloc" THEN [bm EXCEPT ![bid] = FALSE]
                         ELSE IF diff = "Dealloc" THEN [bm EXCEPT ![bid] = TRUE]
                         ELSE bm,
                         Tail(log))

RECURSIVE ApplyDiffLogs(_, _)
ApplyDiffLogs(bm, logs) ==
    IF logs = <<>> THEN bm ELSE ApplyDiffLogs(ApplyDiffLog(bm, Head(logs)), Tail(logs))

\* AllocTable::recover
AllocTable_recover(s) ==
    LET bm0 == IF s.bvt = <<>> THEN AllFree ELSE s.bvt[1]
        bm == ApplyDiffLogs(bm0, s.bal)
        fo == first_one(bm, 0)
    IN [s EXCEPT !.bitmap = bm,
                 !.next_avail = IF fo = NoHba THEN 0 ELSE fo,
                 !.num_free = count_ones(bm),
                 !.segs = IF s.enable_gc /\ s.seg_log # <<>> THEN s.seg_log[1]
                          ELSE NewSegmentTable,
                 !.is_dirty = FALSE]


\* ---------------------------------------------------------------- DataBuf
DataBuf_index(buf, lba) ==
    LET c == {i \in 1..Len(buf) : buf[i].lba = lba}
    IN IF c = {} THEN 0 ELSE Min(c)

\* DataBuf::put: the buffer after the put; the caller flushes once
\* DataBuf_at_capacity holds of it.
DataBuf_put(buf, lba, data) ==
    LET i == DataBuf_index(buf, lba)
    IN IF i = 0 THEN Append(buf, [lba |-> lba, data |-> data])
       ELSE [buf EXCEPT ![i] = [lba |-> lba, data |-> data]]

DataBuf_at_capacity(buf) == Len(buf) >= DATA_BUF_CAP

\* DataBuf::get: the payload, EmptyRead when absent.
DataBuf_get(buf, lba) ==
    LET i == DataBuf_index(buf, lba)
    IN IF i = 0 THEN EmptyRead ELSE buf[i].data

\* ------------------------------------------------- forward index (TxLsmTree)
EmptyTable == [l \in LBAs |-> NoRec]

\* TxLsmTree::get: MemTable first, then the SSTs from the newest on.
Lsm_get(s, lba) ==
    IF s.memtable[lba] # NoRec THEN s.memtable[lba]
    ELSE LET c == {i \in 1..Len(s.ssts) : s.ssts[i][lba] # NoRec}
         IN IF c = {} THEN NoRec ELSE s.ssts[Min(c)][lba]

\* The on_drop_record_in_memtable closure of create and open.
on_drop_record_in_memtable(s, record) ==
    IF s.dealloc_table[record.hba]
    THEN [s EXCEPT !.dealloc_table[record.hba] = FALSE]
    ELSE set_deallocated(s, record.hba)

\* TxLsmTree::put: a record replaced in the MemTable is dropped.
Lsm_put(s, lba, record) ==
    LET s1 == IF s.memtable[lba] # NoRec
              THEN on_drop_record_in_memtable(s, s.memtable[lba])
              ELSE s
    IN [s1 EXCEPT !.memtable[lba] = record]

\* TxLsmTreeListener::on_add_record: the diff table after the callback.
on_add_record(tx_type, dt, record) ==
    IF tx_type = "Minor" THEN alloc_block(dt, record.hba) ELSE dt

\* An on_drop_record that does not look at the dealloc table.
on_drop_record_unflagged(tx_type, s, dt, record) ==
    [s |-> s, dt |-> dealloc_block(dt, record.hba)]

\* TxLsmTreeListener::on_drop_record, for a major compaction or migration TX
\* (in a minor compaction it is unreachable!): [s, dt].
on_drop_record(tx_type, s, dt, record) ==
    IF s.dealloc_table[record.hba]
    THEN [s |-> [s EXCEPT !.dealloc_table[record.hba] = FALSE], dt |-> dt]
    ELSE [s |-> s, dt |-> dealloc_block(dt, record.hba)]

RECURSIVE AddRecords(_, _, _)
AddRecords(tx_type, dt, records) ==
    IF records = <<>> THEN dt
    ELSE AddRecords(tx_type, on_add_record(tx_type, dt, Head(records)), Tail(records))

RECURSIVE DropRecords(_, _, _, _)
DropRecords(tx_type, s, dt, records) ==
    IF records = <<>> THEN [s |-> s, dt |-> dt]
    ELSE LET r == on_drop_record(tx_type, s, dt, Head(records))
         IN DropRecords(tx_type, r.s, r.dt, Tail(records))

TableRecords(table) ==
    LET ls == SortedSeq({l \in LBAs : table[l] # NoRec})
    IN [i \in 1..Len(ls) |-> table[ls[i]]]

\* on_tx_precommit and on_tx_commit of the listener.
ListenerCommit(s, dt) == update_alloc_table(update_diff_log(s, dt), dt)

\* Minor compaction TX: the MemTable becomes the newest SST.
MinorCompactionTx(s) ==
    LET dt == AddRecords("Minor", EmptyDiff, TableRecords(s.memtable))
        s1 == ListenerCommit(s, dt)
    IN [s1 EXCEPT !.ssts = <<s.memtable>> \o @,
                  !.memtable = EmptyTable,
                  !.p_wal = EmptyTable]

\* The records a merge of all SSTs drops: every version of an LBA but the newest.
StaleRecords(tables) ==
    LET stale(l) == LET c == SortedSeq({i \in 1..Len(tables) : tables[i][l] # NoRec})
                    IN [j \in 1..(IF Len(c) = 0 THEN 0 ELSE Len(c) - 1) |-> tables[c[j + 1]][l]]
        F[l \in 0..total_blocks] == IF l = total_blocks THEN <<>> ELSE stale(l) \o F[l + 1]
    IN F[0]

MergedTable(tables) ==
    [l \in LBAs |-> LET c == {i \in 1..Len(tables) : tables[i][l] # NoRec}
                    IN IF c = {} THEN NoRec ELSE tables[Min(c)][l]]

\* Major compaction TX: the SSTs are merged into one.
MajorCompactionTx(s) ==
    LET r == DropRecords("Major", s, EmptyDiff, StaleRecords(s.ssts))
        s1 == ListenerCommit(r.s, r.dt)
    IN [s1 EXCEPT !.ssts = <<MergedTable(s.ssts)>>]

\* TxLsmTree::manual_compaction
manual_compaction(s) ==
    LET s1 == IF s.memtable # EmptyTable THEN MinorCompactionTx(s) ELSE s
    IN Logged(IF Len(s1.ssts) >= 2 THEN MajorCompactionTx(s1) ELSE s1, <<"manual_compaction">>)

\* ------------------------------------------------------------- DiskInner
RECURSIVE GroupRuns(_)
\* slice::group_by(|a, b| b - a == 1): maximal runs of consecutive HBAs.
GroupRuns(q) ==
    IF q = <<>> THEN <<>>
    ELSE LET rest == GroupRuns(Tail(q))
         IN IF rest # <<>> /\ Head(rest)[1] - Head(q) = 1
            THEN <<(<<Head(q)>> \o Head(rest))>> \o Tail(rest)
            ELSE <<(<<Head(q)>>)>> \o rest

\* BlockSet::write of `blocks` consecutive blocks starting at `pos`.
DiskWrite(d, pos, blocks) ==
    [h \in HBAs |-> IF h >= pos /\ h < pos + Len(blocks) THEN blocks[h - pos + 1] ELSE d[h]]

RECURSIVE WriteBatches(_, _, _, _, _)
\* The batch loop of write_blocks_from_data_buf: [disk, records].
WriteBatches(d, batches, data_blocks, nth, key0) ==
    IF batches = <<>> THEN [disk |-> d, records |-> <<>>]
    ELSE LET batch == Head(batches)
             enc == [i \in 1..Len(batch) |->
                        Encrypt(data_blocks[nth + i].data, key0 + nth + i)]
             recs == [i \in 1..Len(batch) |->
                        [lba |-> data_blocks[nth + i].lba,
                         value |-> [hba |-> batch[i], key |-> key0 + nth + i,
                                    mac |-> enc[i].mac]]]
             d1 == DiskWrite(d, batch[1], [i \in 1..Len(batch) |-> enc[i].cipher])
             rest == WriteBatches(d1, Tail(batches), data_blocks, nth + Len(batch), key0)
         IN [disk |-> rest.disk, records |-> recs \o rest.records]

\* write_blocks_from_data_buf once alloc_batch has returned `a`: the `?` on
\* its error, otherwise the encryption and the batched write of the blocks.
write_allocated_blocks(s, a) ==
    IF ~a.ok THEN [s |-> a.s, records |-> <<>>, ok |-> FALSE]
    ELSE LET w == WriteBatches(a.s.disk, GroupRuns(a.hbas), s.data_buf, 0, s.nkeys)
         IN [s |-> [a.s EXCEPT !.disk = w.disk, !.nkeys = @ + Len(s.data_buf)],
             records |-> w.records, ok |-> TRUE]

\* DiskInner::write_blocks_from_data_buf: [s, records, ok].
write_blocks_from_data_buf(s) ==
    IF Len(s.data_buf) = 0 THEN [s |-> s, records |-> <<>>, ok |-> TRUE]
    ELSE write_allocated_blocks(s, alloc_batch(s, Len(s.data_buf)))

RECURSIVE InsertRecords(_, _)
\* The record loop of flush_data_buf: [s, ok]; the `?` on the put that fails
\* leaves the loop with the records put so far in the index.
InsertRecords(s, records) ==
    IF records = <<>> THEN [s |-> s, ok |-> TRUE]
    ELSE IF s.put_fault = 1
    THEN [s |-> Logged(s, <<"put", Head(records).lba, Head(records).value, "Err">>),
          ok |-> FALSE]
    ELSE LET r == Head(records)
             s1 == Lsm_put(s, r.lba, r.value)
             s2 == IF s.enable_gc THEN [s1 EXCEPT !.rit[r.value.hba] = r.lba] ELSE s1
         IN InsertRecords([s2 EXCEPT !.put_fault = IF @ = 0 THEN 0 ELSE @ - 1,
                                     !.calls = Append(@, <<"put", r.lba, r.value, "Ok">>)],
                          Tail(records))

\* A flush_inserted that leaves the flushed blocks in the data buffer.
flush_inserted_uncleared(ins) ==
    IF ~ins.ok THEN ins
    ELSE [s |-> [ins.s EXCEPT !.is_active = TRUE], ok |-> TRUE]

\* flush_data_buf after its record loop, of result `ins`: the `?` on the
\* loop's error, otherwise is_active and the clearing of the buffer.
flush_inserted(ins) ==
    IF ~ins.ok THEN ins
    ELSE [s |-> [ins.s EXCEPT !.is_active = TRUE, !.data_buf = <<>>], ok |-> TRUE]

\* flush_data_buf once the blocks are written, `w` being the result of
\* write_blocks_from_data_buf: the `?` on its error, otherwise the record
\* loop and what follows it.
flush_records(w) ==
    IF ~w.ok THEN [s |-> w.s, ok |-> FALSE]
    ELSE flush_inserted(InsertRecords(w.s, w.records))

\* The OutOfDisk arm of flush_data_buf: the second write_blocks_from_data_buf,
\* on the state `sc` that manual_compaction left.
flush_after_compaction(sc) == flush_records(write_blocks_from_data_buf(sc))

\* flush_data_buf from the first write_blocks_from_data_buf, of result `w1`.
flush_written(w1) ==
    IF w1.ok THEN flush_records(w1) ELSE flush_after_compaction(manual_compaction(w1.s))

\* DiskInner::flush_data_buf (after wait_for_background_gc): [s, ok].
flush_data_buf(s) ==
    flush_written(write_blocks_from_data_buf(Logged(s, <<"flush_data_buf", s.data_buf>>)))

\* The body of the block loop of DiskInner::write after the put, on the
\* state `s1` that holds the block: the flush of a full buffer.
flush_if_at_capacity(s1) ==
    IF DataBuf_at_capacity(s1.data_buf) THEN flush_data_buf(s1) ELSE [s |-> s1, ok |-> TRUE]

RECURSIVE DiskInner_write(_, _, _)
\* The block loop of DiskInner::write past one block, of flush result `f`:
\* the `?` on its error, otherwise the following blocks.
write_following(f, lba, datas) ==
    IF ~f.ok THEN f ELSE DiskInner_write(f.s, lba + 1, Tail(datas))

\* DiskInner::write of the blocks `datas` at `lba`: [s, ok].
DiskInner_write(s, lba, datas) ==
    IF datas = <<>> THEN [s |-> s, ok |-> TRUE]
    ELSE write_following(
             flush_if_at_capacity([s EXCEPT !.data_buf = DataBuf_put(@, lba, Head(datas))]),
             lba, datas)

RECURSIVE WriteFlushes(_, _, _)
\* Whether DiskInner::write of n blocks at lba reaches flush_data_buf, and so
\* wait_for_background_gc.
WriteFlushes(buf, lba, n) ==
    IF n = 0 THEN FALSE
    ELSE DataBuf_at_capacity(DataBuf_put(buf, lba, 1))
         \/ WriteFlushes(DataBuf_put(buf, lba, 1), lba + 1, n - 1)

\* DiskInner::sync past flush_data_buf, of result `f`: the `?` on its error,
\* otherwise the compaction of the allocation table and the sync of the
\* transactional log store, which makes the WAL of the MemTable durable.
sync_flushed(f) ==
    IF ~f.ok THEN f
    ELSE [s |-> [do_compaction(f.s) EXCEPT !.p_wal = f.s.memtable], ok |-> TRUE]

\* DiskInner::sync: [s, ok].
DiskInner_sync(s) == sync_flushed(flush_data_buf(s))

\* A read_one_block that skips the search in the data buffer.
read_one_block_unbuffered(s, lba) ==
    LET value == Lsm_get(s, lba)
    IN IF value = NoRec THEN EmptyRead
       ELSE Decrypt(s.disk[value.hba], value.key, value.mac)

\* DiskInner::read_one_block: the payload, EmptyRead, or DecryptErr.
read_one_block(s, lba) ==
    IF DataBuf_get(s.data_buf, lba) # EmptyRead THEN DataBuf_get(s.data_buf, lba)
    ELSE LET value == Lsm_get(s, lba)
         IN IF value = NoRec THEN EmptyRead
            ELSE Decrypt(s.disk[value.hba], value.key, value.mac)

RECURSIVE SortByHba(_)
\* sort_by(hba) of the range-query results (stable; they arrive in LBA order).
SortByHba(S) ==
    IF S = {} THEN <<>>
    ELSE LET m == CHOOSE x \in S : \A y \in S :
                      x.value.hba < y.value.hba
                      \/ (x.value.hba = y.value.hba /\ x.lba <= y.lba)
         IN <<m>> \o SortByHba(S \ {m})

RECURSIVE ReadBatches(_, _, _)
\* The batch loop of read_multi_blocks: a set of <<lba, payload>>.
ReadBatches(d, batches, sorted) ==
    IF batches = <<>> THEN {}
    ELSE LET batch == Head(batches)
             n == Len(batch)
         IN {<<sorted[i].lba,
               Decrypt(d[batch[1] + i - 1], sorted[i].value.key, sorted[i].value.mac)>>
                 : i \in 1..n}
            \cup ReadBatches(d, Tail(batches), SubSeq(sorted, n + 1, Len(sorted)))

\* DiskInner::read_multi_blocks of n blocks at lba, as DiskInner::read returns
\* them: a sequence of payloads; after a NotFound of the range query (an
\* empty read) only the blocks found in the data buffer are filled.
read_multi_blocks(s, lba, n) ==
    LET range == lba..(lba + n - 1)
        inbuf == {l \in range : DataBuf_get(s.data_buf, l) # EmptyRead}
        rest == range \ inbuf
        found == {[lba |-> l, value |-> Lsm_get(s, l)] : l \in rest}
        sorted == SortByHba(found)
        got == ReadBatches(s.disk, GroupRuns([i \in 1..Len(sorted) |-> sorted[i].value.hba]),
                           sorted)
        failed == \E g \in got : g[2] = DecryptErr
        val(l) == IF l \in inbuf THEN DataBuf_get(s.data_buf, l)
                  ELSE IF \E f \in found : f.value = NoRec THEN EmptyRead
                  ELSE IF failed THEN DecryptErr
                  ELSE (CHOOSE g \in got : g[1] = l)[2]
    IN [i \in 1..n |-> val(lba + i - 1)]


\* --------------------------------------------------------------------- GC
NoSeg == 0 - 1

\* invalid_block_fraction > threshold, the threshold given in tenths.
ExceedsThreshold(seg, tenths) == num_invalid_blocks(seg) * 10 > tenths * SEGMENT_SIZE

\* segment_table.len()
TableLen(table) == Cardinality(DOMAIN table)

RECURSIVE GreedyScan_last(_, _, _, _, _)
\* A scan that takes the last of the segments with the most invalid blocks.
GreedyScan_last(table, tenths, i, max_num_invalid_blocks, victim) ==
    IF i = TableLen(table) THEN victim
    ELSE IF ExceedsThreshold(table[i], tenths)
            /\ num_invalid_blocks(table[i]) >= max_num_invalid_blocks
         THEN GreedyScan_last(table, tenths, i + 1, num_invalid_blocks(table[i]), i)
         ELSE GreedyScan_last(table, tenths, i + 1, max_num_invalid_blocks, victim)

RECURSIVE GreedyScan(_, _, _, _, _)
\* The for_each of GreedyVictimPolicy::pick_victim from segment i on.
GreedyScan(table, tenths, i, max_num_invalid_blocks, victim) ==
    IF i = TableLen(table) THEN victim
    ELSE IF ExceedsThreshold(table[i], tenths)
            /\ num_invalid_blocks(table[i]) > max_num_invalid_blocks
         THEN GreedyScan(table, tenths, i + 1, num_invalid_blocks(table[i]), i)
         ELSE GreedyScan(table, tenths, i + 1, max_num_invalid_blocks, victim)

\* GreedyVictimPolicy::pick_victim: the victim's segment id, NoSeg for None.
pick_victim(table, tenths) == GreedyScan(table, tenths, 0, 0, NoSeg)

RECURSIVE LoopScan(_, _, _, _)
\* The loop of LoopScanVictimPolicy::pick_victim: [victim, cursor], the
\* victim's segment id (NoSeg for None) and the cursor the call leaves.
LoopScan(table, tenths, last_cursor, c) ==
    IF (c + 1) % TableLen(table) = last_cursor
    THEN [victim |-> NoSeg, cursor |-> last_cursor]
    ELSE IF ExceedsThreshold(table[(c + 1) % TableLen(table)], tenths)
    THEN [victim |-> (c + 1) % TableLen(table), cursor |-> (c + 1) % TableLen(table)]
    ELSE LoopScan(table, tenths, last_cursor, (c + 1) % TableLen(table))

\* LoopScanVictimPolicy::pick_victim
LoopScan_pick_victim(table, tenths, last_cursor) ==
    LoopScan(table, tenths, last_cursor, last_cursor)

RECURSIVE Flatten(_)
Flatten(qq) == IF qq = <<>> THEN <<>> ELSE Head(qq) \o Flatten(Tail(qq))

\* GcWorker::find_target_hbas: [ok, valid, discard, target]; ok = FALSE when a
\* lookup in the reverse or the forward index fails.
find_target_hbas(s, segment_id, blocks) ==
    LET known(h) == s.rit[h] # NoLba /\ Lsm_get(s, s.rit[h]) # NoRec
        isValid(h) == Lsm_get(s, s.rit[h]).hba = h
        idx == {i \in 1..Len(blocks) : TRUE}
        ok == \A i \in idx : known(blocks[i])
        valid == SortedSeq({blocks[i] : i \in {j \in idx : ok /\ isValid(blocks[j])}})
        discard == SortedSeq({blocks[i] : i \in {j \in idx : ok /\ ~isValid(blocks[j])}})
        eligible == [i \in 1..NSegs |->
                        IF s.segs[i - 1].free_space = 0 \/ i - 1 = segment_id THEN <<>>
                        ELSE find_all_free_blocks(s.bitmap, i - 1)]
        free == Flatten(eligible)
        target == SubSeq(free, 1, IF Len(free) < Len(valid) THEN Len(free) ELSE Len(valid))
    IN [ok |-> ok, valid |-> valid, discard |-> discard, target |-> target]

RECURSIVE CopyBatches(_, _, _)
\* The batch loop of clean_and_migrate_data: each run of target HBAs receives
\* the next valid blocks of the victim in one write.
CopyBatches(d, batches, victims) ==
    IF batches = <<>> THEN d
    ELSE LET batch == Head(batches)
             n == Len(batch)
             write_buf == [i \in 1..n |-> IF i <= Len(victims) THEN d[victims[i]] ELSE NoData]
         IN CopyBatches(DiskWrite(d, batch[1], write_buf), Tail(batches),
                        SubSeq(victims, n + 1, Len(victims)))

\* GcWorker::clean_and_migrate_data: [s, pairs, ok].
clean_and_migrate_data(s, segment_id, blocks) ==
    LET f == find_target_hbas(s, segment_id, blocks)
        d == CopyBatches(s.disk, GroupRuns(f.target), f.valid)
        s1 == migrate_batch([s EXCEPT !.disk = d], f.valid)
        s2 == clear_segment(s1, segment_id, Len(f.discard))
    IN IF ~f.ok THEN [s |-> s, pairs |-> <<>>, ok |-> FALSE]
       ELSE [s |-> s2,
             pairs |-> [i \in 1..Len(f.target) |-> <<f.valid[i], f.target[i]>>],
             ok |-> TRUE]

\* One pair of remap_index_batch past the put of the forward index, which
\* left s1: the put of the reverse index and the dealloc-table flag.
remap_reverse(s1, old_hba, new_hba, lba) ==
    [s1 EXCEPT !.rit[new_hba] = lba, !.dealloc_table[old_hba] = TRUE]

RECURSIVE remap_index_batch_tx(_, _, _, _)
\* GcWorker::remap_index_batch in which put number `fault` returns the error
\* `errno` (0: none; 2k - 1 is the put of the forward index for pair k, 2k
\* that of the reverse index): [s, ok, errno].
remap_index_batch_tx(s, remapped_hbas, fault, errno) ==
    IF remapped_hbas = <<>> THEN [s |-> s, ok |-> TRUE, errno |-> "Ok"]
    ELSE IF fault = 1 THEN [s |-> s, ok |-> FALSE, errno |-> errno]
    ELSE LET old_hba == Head(remapped_hbas)[1]
             new_hba == Head(remapped_hbas)[2]
             lba == s.rit[old_hba]
             record_value == [Lsm_get(s, lba) EXCEPT !.hba = new_hba]
         IN IF fault = 2
            THEN [s |-> Lsm_put(s, lba, record_value), ok |-> FALSE, errno |-> errno]
            ELSE remap_index_batch_tx(
                     remap_reverse(Lsm_put(s, lba, record_value), old_hba, new_hba, lba),
                     Tail(remapped_hbas), IF fault = 0 THEN 0 ELSE fault - 2, errno)

\* GcWorker::remap_index_batch, no put failing.
remap_index_batch(s, remapped_hbas) == remap_index_batch_tx(s, remapped_hbas, 0, "Ok").s

\* The closure of the TX of a victim past clean_and_migrate_data, which
\* returned `m` from state s.
victim_migrated(s, m, fault, errno) ==
    IF ~m.ok THEN [s |-> s, ok |-> FALSE, errno |-> "NotFound"]
    ELSE remap_index_batch_tx(m.s, m.pairs, fault, errno)

\* The TX of one victim in background_gc: [s, ok, errno].  The TX is one of
\* the worker's own TxProvider, with which no table is registered: its abort
\* leaves the tables as the closure left them, and the error returned is the
\* closure's.
victim_tx(s, victim, fault, errno) ==
    victim_migrated(s, clean_and_migrate_data(s, victim,
                                              find_all_allocated_blocks(s.bitmap, victim)),
                    fault, errno)

RECURSIVE GcLoop(_, _, _)
\* The victim loop past the TX of its n-th last victim, which returned `v`.
GcLoopAfter(v, tenths, n) ==
    IF ~v.ok THEN [s |-> v.s, ok |-> FALSE] ELSE GcLoop(v.s, tenths, n - 1)

\* The victim loop of GcWorker::background_gc: [s, ok].
GcLoop(s, tenths, n) ==
    IF n = 0 THEN [s |-> s, ok |-> TRUE]
    ELSE IF pick_victim(s.segs, tenths) = NoSeg THEN [s |-> s, ok |-> TRUE]
    ELSE GcLoopAfter(victim_tx(s, pick_victim(s.segs, tenths), 0, "Ok"), tenths, n)

\* GcWorker::background_gc: [s, ok].
background_gc(s) ==
    GcLoop(s, IF s.is_active THEN ACTIVE_GC_THRESHOLD_TENTHS ELSE INACTIVE_GC_THRESHOLD_TENTHS,
           GC_WATERMARK)


\* ------------------------------------------------- the disk: specification
Threads == {"gc", "compaction", "io1", "io2"}
\* Config::default, of which the model keeps enable_gc and cache_size
\* (0 stands for usize::MAX).
Config_default == [enable_gc |-> FALSE, cache_size |-> 0]
\* The disk is not dropped and nothing has set the configuration cell; the
\* disk's own specifications take the enable_gc argument and the
\* configuration to agree, in the variable enable_gc.
ConfigIdle ==
    /\ is_dropped = FALSE
    /\ CONFIG = [initialized |-> FALSE, value |-> Config_default]
    /\ built = <<>>
    /\ set_first = [called |-> <<>>, completed |-> <<>>]
    /\ cursor = 0
BarrierIdle ==
    /\ pc = [t \in Threads |-> "idle"]
    /\ rounds = [t \in Threads |-> 0]
    /\ compaction_in_progress = FALSE
    /\ gc_mode = "run"
    /\ earlier = FALSE
    /\ nops = 0
    /\ ret = <<>>
    /\ write_sync_region = [readers |-> 0, writer |-> FALSE]
    /\ ConfigIdle

\* SwornDisk::create
Init ==
    /\ enable_gc \in BOOLEAN
    /\ data_buf = <<>>
    /\ memtable = EmptyTable
    /\ ssts = <<>>
    /\ rit = [h \in HBAs |-> NoLba]
    /\ dealloc_table = [h \in HBAs |-> FALSE]
    /\ disk = [h \in HBAs |-> NoData]
    /\ bitmap = AllFree
    /\ num_free = NBLOCKS
    /\ next_avail = 0
    /\ segs = NewSegmentTable
    /\ is_dirty = FALSE
    /\ is_active = TRUE
    /\ bvt = <<>>
    /\ seg_log = <<>>
    /\ bal = <<>>
    /\ p_wal = EmptyTable
    /\ nkeys = 0
    /\ nwrites = 0
    /\ last = [l \in LBAs |-> 0]
    /\ durable = [l \in LBAs |-> 0]
    /\ phase = "run"
    /\ rd = <<>>
    /\ gc_in_progress = FALSE
    /\ BarrierIdle

\* What the disk's operations leave alone: the barrier's threads and the
\* operation count of the allocator's specification.
BarrierUnchanged ==
    UNCHANGED <<compaction_in_progress, pc, rounds, gc_mode, earlier, nops, ret,
                write_sync_region, configVars>>

\* The LBAs of a write that reached the data buffer: all of them when the
\* write succeeded, otherwise those up to the block whose flush failed.
PutCount(s1, lba, n, ok) ==
    IF ok THEN n
    ELSE Cardinality({i \in 0..(n - 1) : DataBuf_get(s1.data_buf, lba + i) = nwrites + i + 1})

\* The outcome `r` of DiskInner::write of n blocks at lba.
Written(r, lba, n) ==
    /\ Becomes(r.s)
    /\ last' = [l \in LBAs |-> IF l >= lba /\ l < lba + PutCount(r.s, lba, n, r.ok)
                               THEN nwrites + (l - lba) + 1
                               ELSE last[l]]

\* SwornDisk::write (n = 1) and SwornDisk::writev (n > 1) of n blocks at lba;
\* block i carries the fresh payload nwrites + i.
Write(lba, n) ==
    /\ lba + n <= NLba
    /\ nwrites + n <= MaxWrites
    /\ WriteFlushes(data_buf, lba, n) => ~gc_in_progress
    /\ Written(DiskInner_write(St, lba, [i \in 1..n |-> nwrites + i]), lba, n)
    /\ nwrites' = nwrites + n
    /\ phase' = "run"
    /\ rd' = <<>>
    /\ UNCHANGED <<durable, gc_in_progress>>
    /\ BarrierUnchanged

\* The outcome `r` of DiskInner::sync.
Synced(r) ==
    /\ Becomes(r.s)
    /\ durable' = IF r.ok THEN last ELSE durable
    /\ phase' = IF r.ok THEN "synced" ELSE "run"

\* SwornDisk::sync
Sync ==
    /\ ~gc_in_progress
    /\ Synced(DiskInner_sync(St))
    /\ rd' = <<>>
    /\ UNCHANGED <<nwrites, last, gc_in_progress>>
    /\ BarrierUnchanged

\* SwornDisk::read (n = 1: read_one_block, n > 1: read_multi_blocks)
Read(lba, n) ==
    /\ lba + n <= NLba
    /\ (\E i \in 0..(n - 1) : DataBuf_get(data_buf, lba + i) = EmptyRead) => ~gc_in_progress
    /\ rd' = <<lba, n,
               IF n = 1 THEN <<read_one_block(St, lba)>> ELSE read_multi_blocks(St, lba, n),
               [i \in 1..n |-> last[lba + i - 1]]>>
    /\ UNCHANGED <<enable_gc, data_buf, memtable, ssts, rit, dealloc_table, disk, bitmap,
                   num_free, next_avail, segs, is_dirty, is_active, bvt, seg_log, bal, p_wal,
                   nkeys, nwrites, last, durable, phase, gc_in_progress>>
    /\ BarrierUnchanged

\* The LSM moves the MemTable to level 0 (minor compaction TX).
MinorCompaction ==
    /\ ~gc_in_progress
    /\ memtable # EmptyTable
    /\ Len(ssts) < MaxSsts
    /\ Becomes(MinorCompactionTx(St))
    /\ phase' = "run"
    /\ rd' = <<>>
    /\ UNCHANGED <<nwrites, last, durable, gc_in_progress>>
    /\ BarrierUnchanged

\* The LSM merges its SSTs (major compaction TX).
MajorCompaction ==
    /\ ~gc_in_progress
    /\ Len(ssts) >= 2
    /\ Becomes(MajorCompactionTx(St))
    /\ phase' = "run"
    /\ rd' = <<>>
    /\ UNCHANGED <<nwrites, last, durable, gc_in_progress>>
    /\ BarrierUnchanged

\* The outcome `r` of background_gc in GcWorker::run.
GcPassed(r) ==
    /\ Becomes([r.s EXCEPT !.is_active = IF r.ok THEN FALSE ELSE @])
    /\ gc_in_progress' = ~r.ok

\* One iteration of GcWorker::run: start_gc, background_gc and, unless the
\* pass returned an error, notify_gc_finished and the reset of is_active.
GcPass ==
    /\ enable_gc
    /\ ~gc_in_progress
    /\ GcPassed(background_gc(St))
    /\ phase' = "run"
    /\ rd' = <<>>
    /\ UNCHANGED <<nwrites, last, durable>>
    /\ BarrierUnchanged

\* Drop of the SwornDisk followed by SwornDisk::open on the same host disk.
Reopen ==
    /\ LET s1 == AllocTable_recover(St)
       IN Becomes([s1 EXCEPT !.data_buf = <<>>,
                             !.memtable = s1.p_wal,
                             !.rit = [h \in HBAs |-> NoLba],
                             !.dealloc_table = [h \in HBAs |-> FALSE],
                             !.is_active = TRUE])
    /\ gc_in_progress' = FALSE
    /\ last' = [l \in LBAs |-> 0]
    /\ phase' = IF phase = "synced" THEN "reopened" ELSE "run"
    /\ durable' = IF phase = "synced" THEN durable ELSE [l \in LBAs |-> 0]
    /\ rd' = <<>>
    /\ UNCHANGED nwrites
    /\ BarrierUnchanged

Next ==
    \/ \E lba \in LBAs, n \in 1..2 : Write(lba, n)
    \/ Sync
    \/ \E lba \in LBAs, n \in 1..2 : Read(lba, n)
    \/ MinorCompaction
    \/ MajorCompaction
    \/ GcPass
    \/ Reopen

Spec == Init /\ [][Next]_vars

\* ----------------------------------------------------- claims on the disk
\* The last Read step: its first LBA, block count, returned payloads and the
\* payloads of the last write of each LBA of the range (0: never written).
ReadDone == rd # <<>>
ReadAllWritten == ReadDone /\ \A i \in 1..rd[2] : rd[4][i] # 0

C2_SyncedWritesSurviveReopen ==
    phase = "reopened" =>
        \A l \in LBAs : durable[l] # 0 => read_one_block(St, l) = durable[l]

\* C3: with GC enabled, a read returns the bytes of the last write of each
\* LBA it covers, whatever background GC passes ran in between.
C3_GcPreservesContents ==
    (enable_gc /\ ReadAllWritten) => rd[3] = rd[4]

\* C4: no HBA whose bitmap bit is 1 (free) is referenced by the current
\* forward-index record of an LBA.
C4_NoFreeHbaReferenced ==
    \A l \in LBAs : Lsm_get(St, l) # NoRec => ~bitmap[Lsm_get(St, l).hba]

\* C6: the drop, by a major compaction, of a superseded record whose HBA the
\* GC has already reclaimed (its bit is free) finds the dealloc-table flag,
\* clears it and records no deallocation.
C6_ReclaimedDropIsNoop ==
    \A i \in 1..Len(StaleRecords(ssts)) :
        LET record == StaleRecords(ssts)[i]
            d == on_drop_record("Major", St, EmptyDiff, record)
        IN bitmap[record.hba] =>
              /\ dealloc_table[record.hba]
              /\ ~d.s.dealloc_table[record.hba]
              /\ d.dt = EmptyDiff

\* C11: with GC enabled, the reverse index maps the HBA of every LBA's
\* current forward-index record back to that LBA, also right after open.
C11_ReverseIndexAgrees ==
    enable_gc => \A l \in LBAs : Lsm_get(St, l) # NoRec => rit[Lsm_get(St, l).hba] = l

\* The sum of a counter over the segment table.
RECURSIVE SumSegments(_, _, _)
SumSegments(table, counter, i) ==
    IF i = NSegs THEN 0 ELSE table[i][counter] + SumSegments(table, counter, i + 1)

\* The HBAs that the current forward-index records reference.
LiveHbas == {Lsm_get(St, l).hba : l \in {k \in LBAs : Lsm_get(St, k) # NoRec}}

\* C13: with GC enabled, the valid_block counters add up to the number of
\* HBAs that live forward-index records reference plus the number of free
\* HBAs.
C13_ValidBlocksAreLivePlusFree ==
    enable_gc =>
        SumSegments(segs, "valid_block", 0) = Cardinality(LiveHbas) + count_ones(bitmap)

\* What a user of the disk and of its store can observe of a state: the
\* contents of every LBA, the forward index, the bitmap, num_free and the
\* persisted BVT, SEG and BAL logs.
Observable(s) ==
    [contents |-> [l \in LBAs |-> read_one_block(s, l)],
     index |-> [l \in LBAs |-> Lsm_get(s, l)],
     bitmap |-> s.bitmap, num_free |-> s.num_free,
     bvt |-> s.bvt, seg_log |-> s.seg_log, bal |-> s.bal]

\* A further sync from `s1` is observably a no-op.
SyncAgainIsNoop(s1) == Observable(DiskInner_sync(s1).s) = Observable(s1)

\* C20: from any state, sync followed by sync leaves the same observable
\* state as one sync.
C20_SyncIsIdempotent == SyncAgainIsNoop(DiskInner_sync(St).s)

\* A state with a buffered block and an unsaved allocation table, where the
\* first sync flushes and saves and the second finds nothing to do.
C20_Witness ==
    /\ data_buf # <<>>
    /\ is_dirty
    /\ Len(ssts) >= 1
    /\ DiskInner_sync(St).ok
    /\ Observable(DiskInner_sync(St).s) # Observable(St)
    /\ SyncAgainIsNoop(DiskInner_sync(St).s)

\* The migration `m` of the victim segment, with targets `f`, from state s:
\* the victim is all free with its counters reset, every target that got a
\* valid block is allocated and counted in its segment's free_space, and
\* num_free has grown by the number of discarded blocks.
MigrationAccounted(s, victim, f, m) ==
    m.ok =>
        /\ \A h \in HBAs : SegOf(h) = victim => m.s.bitmap[h]
        /\ m.s.segs[victim] = Segment_new
        /\ \A i \in 1..Len(f.target) : ~m.s.bitmap[f.target[i]]
        /\ \A sid \in SegIds \ {victim} :
               m.s.segs[sid].free_space =
                   s.segs[sid].free_space
                   - Cardinality({i \in 1..Len(f.target) : SegOf(f.target[i]) = sid})
        /\ m.s.num_free = s.num_free + Len(f.discard)

\* The migration of `victim` and its allocated blocks from state s.
VictimAccounted(s, victim, blocks) ==
    victim # NoSeg =>
        MigrationAccounted(s, victim, find_target_hbas(s, victim, blocks),
                           clean_and_migrate_data(s, victim, blocks))

\* The victim that the next GC pass picks first in state s.
NextVictim(s) ==
    pick_victim(s.segs, IF s.is_active THEN ACTIVE_GC_THRESHOLD_TENTHS
                        ELSE INACTIVE_GC_THRESHOLD_TENTHS)

\* C25: after GC has migrated a victim segment every HBA of the victim is
\* free and its counters are reset; every target HBA that received a valid
\* block is allocated and its segment's free_space is decremented; num_free
\* has increased by exactly the number of discarded blocks.
C25_MigrationAccounted ==
    enable_gc =>
        VictimAccounted(St, NextVictim(St),
                        IF NextVictim(St) = NoSeg THEN <<>>
                        ELSE find_all_allocated_blocks(bitmap, NextVictim(St)))

\* The commit of a TX with diff table dt in state s: every HBA of the table
\* is allocated (the debug assertions of update_alloc_table), the bits of the
\* Dealloc diffs become free and are added to num_free, the others stay.
CommitAsClaimed(s, dt) ==
    /\ \A h \in HBAs : dt[h] # 0 => ~s.bitmap[h]
    /\ update_alloc_table(s, dt).bitmap =
           [h \in HBAs |-> IF dt[h] = TAG_DEALLOC THEN TRUE ELSE s.bitmap[h]]
    /\ update_alloc_table(s, dt).num_free =
           s.num_free + Cardinality({h \in HBAs : dt[h] = TAG_DEALLOC})

\* The commit of the major compaction TX whose callbacks gave `r`.
MajorCommitAsClaimed(r) == CommitAsClaimed(r.s, r.dt)

\* C28: at the commit of a TX update_alloc_table frees the bit of every
\* HBA with a Dealloc diff and adds their number to num_free, leaves the
\* other bits alone, and every HBA in the diff table is allocated then; this
\* holds for the minor and the major compaction TX of every reachable state.
C28_CommitAppliesDeallocs ==
    /\ memtable # EmptyTable =>
           CommitAsClaimed(St, AddRecords("Minor", EmptyDiff, TableRecords(memtable)))
    /\ Len(ssts) >= 2 =>
           MajorCommitAsClaimed(DropRecords("Major", St, EmptyDiff, StaleRecords(ssts)))

\* The result `r` of on_drop_record for `record` in state s with diff table
\* dt: a flagged HBA loses its flag and records nothing, any other HBA
\* records a Dealloc diff and nothing else changes.
DropAsClaimed(s, dt, record, r) ==
    IF s.dealloc_table[record.hba]
    THEN /\ r.dt = dt
         /\ r.s = [s EXCEPT !.dealloc_table[record.hba] = FALSE]
    ELSE /\ r.dt = [dt EXCEPT ![record.hba] = TAG_DEALLOC]
         /\ r.s = s

\* The result `r` of the MemTable's drop callback for `record` in state s: a
\* flagged HBA loses its flag, any other is deallocated at once.
MemtableDropAsClaimed(s, record, r) ==
    IF s.dealloc_table[record.hba]
    THEN r = [s EXCEPT !.dealloc_table[record.hba] = FALSE]
    ELSE /\ r.bitmap = [s.bitmap EXCEPT ![record.hba] = TRUE]
         /\ r.num_free = s.num_free + 1
         /\ r.dealloc_table = s.dealloc_table

\* The records of the SSTs that a major compaction drops, and those of the
\* MemTable.
Stale == Range(StaleRecords(ssts))
InMemtable == Range(TableRecords(memtable))

\* C29: the listener's matrix. In a minor compaction TX every added record
\* records an Alloc diff for its HBA (and nothing is dropped); in a major
\* compaction or migration TX an added record records nothing and a dropped
\* record records a Dealloc diff unless the dealloc table flags its HBA,
\* when the flag is cleared instead; the MemTable's drop callback does the
\* same but deallocates at once through set_deallocated.
C29_ListenerMatrix ==
    /\ AddRecords("Minor", EmptyDiff, TableRecords(memtable)) =
           [h \in HBAs |-> IF \E rec \in InMemtable : rec.hba = h THEN TAG_ALLOC ELSE 0]
    /\ \A tx_type \in {"Major", "Migration"} :
           /\ AddRecords(tx_type, EmptyDiff, TableRecords(memtable)) = EmptyDiff
           /\ \A rec \in Stale \cup InMemtable :
                  DropAsClaimed(St, EmptyDiff, rec, on_drop_record(tx_type, St, EmptyDiff, rec))
    /\ \A rec \in InMemtable :
           MemtableDropAsClaimed(St, rec, on_drop_record_in_memtable(St, rec))

\* A major compaction is due that drops one record whose HBA the dealloc
\* table flags and the MemTable holds a record to add or to replace.
C29_Witness ==
    /\ enable_gc
    /\ Len(ssts) >= 2
    /\ \E rec \in Stale : dealloc_table[rec.hba]
    /\ memtable # EmptyTable

\* The metadata of state s: bitmap, num_free, segment counters, the records
\* of the forward and of the reverse index and the dealloc-table flags.
Metadata(s) == <<s.bitmap, s.num_free, s.segs, s.memtable, s.ssts, s.rit, s.dealloc_table>>

\* The largest number of a put of remap_index_batch that is made to fail.
MaxPutFault == 2 * SEGMENT_SIZE

\* The errors a put of an index returns in the model.
PutErrnos == {"TxAborted", "IoFailed"}

\* The TX of a victim, which returned `v` from state s: when it failed,
\* TxAborted is returned and the metadata are those of s.
VictimFailureAsClaimed(s, v) ==
    ~v.ok => v.errno = "TxAborted" /\ Metadata(v.s) = Metadata(s)

\* C31: if a step of a victim's migration or index rewrite fails inside the
\* GC TX, the TX is aborted and TxAborted is returned, and no partial change
\* of the metadata of that victim remains: bitmap, num_free, segment
\* counters, index records and dealloc-table flags are as before the victim.
C31_FailedVictimLeavesNoChange ==
    (enable_gc /\ NextVictim(St) # NoSeg) =>
        \A fault \in 0..MaxPutFault, errno \in PutErrnos :
            VictimFailureAsClaimed(St, victim_tx(St, NextVictim(St), fault, errno))

\* C34: no two distinct LBAs have current records of the forward index
\* with the same HBA: the allocator never hands out, to a flush or as a
\* target of a GC migration, an HBA that holds the live data of an LBA.
C34_ForwardIndexInjective ==
    \A l1, l2 \in LBAs :
        (l1 # l2 /\ Lsm_get(St, l1) # NoRec /\ Lsm_get(St, l2) # NoRec) =>
            Lsm_get(St, l1).hba # Lsm_get(St, l2).hba

\* Recovery from the persisted snapshots and BAL logs of state s rebuilds
\* the bitmap and, with GC, the segment table that s has in memory.
Persisted(s) ==
    /\ AllocTable_recover(s).bitmap = s.bitmap
    /\ s.enable_gc => AllocTable_recover(s).segs = s.segs

\* C38: is_dirty tracks every unpersisted change: whenever the bitmap or the
\* segment table in memory differs from what recovery would rebuild from
\* the persisted BVT/SEG snapshot and the BAL logs, is_dirty is true, so
\* that once sync has returned the persisted state reproduces them.
C38_DirtyTracksUnpersisted ==
    /\ ~Persisted(St) => is_dirty
    /\ phase = "synced" => Persisted(St)

\* HBA h is the HBA of the current record of some LBA other than `record`.
HeldByNewRecord(s, record) ==
    \E l \in LBAs : Lsm_get(s, l) # NoRec /\ Lsm_get(s, l) # record
                      /\ Lsm_get(s, l).hba = record.hba

\* C39: a dealloc-table flag is consumed only by the drop of the superseded
\* record that the GC rewrote. The drop of a record that is current in the
\* MemTable (a record written after any flag of its HBA was set) is not
\* skipped: it frees the HBA; and the drop, by a major compaction, of a
\* superseded record whose HBA was handed out again to the current record
\* of an LBA records no deallocation of that HBA.
C39_FlagConsumedByItsOwnDrop ==
    /\ \A l \in LBAs :
           memtable[l] # NoRec =>
              on_drop_record_in_memtable(St, memtable[l])
                  = set_deallocated(St, memtable[l].hba)
    /\ \A i \in 1..Len(StaleRecords(ssts)) :
           HeldByNewRecord(St, StaleRecords(ssts)[i]) =>
              on_drop_record("Major", St, EmptyDiff, StaleRecords(ssts)[i]).dt
                  = EmptyDiff

\* What find_target_hbas returns for victim segment v of state s.
TargetsOfVictim(s, v) ==
    find_target_hbas(s, v, find_all_allocated_blocks(s.bitmap, v))

\* The targets reserved for the valid blocks: one per valid block,
\* pairwise distinct, free and outside victim segment v.
TargetsAsClaimed(s, v, f) ==
    /\ Len(f.target) = Len(f.valid)
    /\ \A i, j \in 1..Len(f.target) : i # j => f.target[i] # f.target[j]
    /\ \A i \in 1..Len(f.target) :
           s.bitmap[f.target[i]] /\ SegOf(f.target[i]) # v

\* C40: whenever the GC has a victim whose blocks are all known to the
\* indexes, the target HBAs that find_target_hbas reserves are pairwise
\* distinct, free, outside the victim and exactly as many as the valid
\* blocks of the victim, so that every valid block is copied before
\* clear_segment frees the segment.
C40_TargetsMatchValidBlocks ==
    (enable_gc /\ NextVictim(St) # NoSeg
               /\ TargetsOfVictim(St, NextVictim(St)).ok) =>
        TargetsAsClaimed(St, NextVictim(St), TargetsOfVictim(St, NextVictim(St)))

\* ------------------------------------- the allocator driven directly
\* AllocTable and BlockAlloc called the way block_alloc.rs's unit tests and
\* the GC call them, without the disk around them.
InitAlloc == Init

AllocStep(s) ==
    /\ nops < MaxAllocOps
    /\ nops' = nops + 1
    /\ Becomes(s)
    /\ UNCHANGED <<nwrites, last, durable, phase, rd, barrierVars, write_sync_region,
                   configVars>>

\* AllocTable::alloc
AllocOp == AllocStep(alloc(St).s) /\ ret' = <<"alloc", alloc(St).hba>>

\* The return `a` of alloc_batch(n), recorded with num_free and next_avail
\* at the call and the HBAs returned.
AllocBatchReturned(a, n) ==
    /\ AllocStep(a.s)
    /\ ret' = <<"alloc_batch", n, num_free, IF a.ok THEN "Ok" ELSE "OutOfDisk", a.hbas,
                next_avail>>

\* AllocTable::alloc_batch(n); Err(OutOfDisk) leaves the table as it was.
AllocBatchOp(n) == AllocBatchReturned(alloc_batch(St, n), n)

\* AllocTable::set_deallocated of an allocated block
SetDeallocatedOp(h) ==
    /\ ~bitmap[h]
    /\ AllocStep(set_deallocated(St, h))
    /\ ret' = <<"set_deallocated", h>>

\* A TX that deallocates the allocated blocks D: dealloc_block for each, then
\* update_diff_log at precommit and update_alloc_table at commit.
DeallocTxOp(D) ==
    /\ D # {}
    /\ \A h \in D : ~bitmap[h]
    /\ AllocStep(ListenerCommit(St, [h \in HBAs |-> IF h \in D THEN TAG_DEALLOC ELSE 0]))
    /\ ret' = <<>>

\* The allocator calls of a GC migration of segment sid whose allocated
\* blocks split into the valid ones V and the discarded rest:
\* migrate_batch(valid) and clear_segment(sid, discard count).
GcMigrationOp(sid, V) ==
    LET blocks == find_all_allocated_blocks(bitmap, sid)
    IN /\ blocks # <<>>
       /\ V \subseteq Range(blocks)
       /\ AllocStep(clear_segment(migrate_batch(St, SortedSeq(V)), sid,
                                  Len(blocks) - Cardinality(V)))
       /\ ret' = <<>>

\* The return `c` of do_compaction of whose TX operation `fault` failed.
CompactionReturned(c, fault) ==
    /\ AllocStep(c.s)
    /\ ret' = <<"do_compaction", fault, c.res, c.failed>>

\* AllocTable::do_compaction
DoCompactionOp(fault) == CompactionReturned(do_compaction_tx(St, fault), fault)

\* AllocTable::recover
RecoverOp == AllocStep(AllocTable_recover(St)) /\ ret' = <<>>

NextAlloc ==
    \/ AllocOp
    \/ \E n \in 1..NBLOCKS : AllocBatchOp(n)
    \/ \E h \in HBAs : SetDeallocatedOp(h)
    \/ \E D \in SUBSET HBAs : DeallocTxOp(D)
    \/ \E sid \in SegIds, V \in SUBSET HBAs : GcMigrationOp(sid, V)
    \/ \E fault \in 0..MaxFault : DoCompactionOp(fault)
    \/ RecoverOp

SpecAlloc == InitAlloc /\ [][NextAlloc]_vars

\* C5: after every completed allocator operation num_free equals the number
\* of 1 bits of the validity bitmap.
C5_NumFreeIsPopcount == num_free = count_ones(bitmap)

\* C12: with GC enabled, the free_space counters of the segments add up to
\* num_free.
C12_FreeSpaceSumsToNumFree ==
    enable_gc => SumSegments(segs, "free_space", 0) = num_free

\* C14: free_space and valid_block of every segment stay within 0..nblocks,
\* and so does num_invalid_blocks.
C14_SegmentCountersInRange ==
    \A i \in SegIds :
        /\ segs[i].free_space \in 0..SEGMENT_SIZE
        /\ segs[i].valid_block \in 0..SEGMENT_SIZE
        /\ num_invalid_blocks(segs[i]) \in 0..SEGMENT_SIZE

\* C15: an alloc_batch(n) called while num_free < n does not return
\* OutOfDisk: it blocks on the condition variable until deallocations have
\* raised num_free to n, and then returns n HBAs.
C15_ShortAllocBatchBlocks ==
    ~(ret # <<>> /\ ret[1] = "alloc_batch" /\ ret[3] < ret[2] /\ ret[4] = "OutOfDisk")

\* --------------------------------------------- the GC worker and drop
\* The thread that create spawns for GcWorker::run, and the drop of the disk.
\* pc["gc"]: "idle"  at the top of the loop of run (or asleep before it)
\*           "pass"  past start_gc, in background_gc
\*           "done"  run has returned
InitWorker == Init /\ enable_gc

\* GcWorker::run, the top of an iteration: `self.shared_state.start_gc()`
run_start_gc ==
    /\ pc["gc"] = "idle"
    /\ rounds["gc"] < MaxPasses
    /\ pc' = [pc EXCEPT !["gc"] = "pass"]
    /\ gc_in_progress' = TRUE
    /\ UNCHANGED <<diskVars, compaction_in_progress, rounds, gc_mode, earlier, nops, ret,
                   write_sync_region, configVars>>

\* The return `r` of background_gc in run: `?` ends the thread, otherwise
\* notify_gc_finished, the reset of is_active and the sleep.
run_passed(r) ==
    /\ GcPassed(r)
    /\ pc' = [pc EXCEPT !["gc"] = IF r.ok THEN "idle" ELSE "done"]
    /\ rounds' = [rounds EXCEPT !["gc"] = @ + 1]

\* GcWorker::run, the rest of an iteration.
run_background_gc ==
    /\ pc["gc"] = "pass"
    /\ run_passed(background_gc(St))
    /\ phase' = "run"
    /\ rd' = <<>>
    /\ UNCHANGED <<nwrites, last, durable, compaction_in_progress, gc_mode, earlier, nops,
                   ret, write_sync_region, configVars>>

\* Drop for SwornDisk
SwornDisk_drop ==
    /\ ~is_dropped
    /\ is_dropped' = TRUE
    /\ UNCHANGED <<diskVars, barrierVars, nops, ret, write_sync_region, CONFIG, built,
                   set_first, cursor>>

\* The calls of the owner of the disk, until it drops the disk.
OwnerWrite(lba, n) == ~is_dropped /\ Write(lba, n)
OwnerSync == ~is_dropped /\ Sync

NextWorker ==
    \/ \E lba \in 0..(NLba - 1), n \in 1..2 : OwnerWrite(lba, n)
    \/ OwnerSync
    \/ run_start_gc
    \/ run_background_gc
    \/ SwornDisk_drop

SpecWorker == InitWorker /\ [][NextWorker]_vars

\* C22: once the disk is dropped the GC worker starts no further pass: the
\* pass in progress ends and the loop of run is left at its next iteration.
C22_NoGcPassAfterDrop ==
    [][is_dropped => ~(pc["gc"] = "idle" /\ pc'["gc"] = "pass")]_vars

\* ------------------------------------------------ the configuration
\* CONFIG.set called by threads, CONFIG.get, and create and open, which set
\* the configuration they are given and read it back while they build.
\* pc[t] = [at, config] for a thread of ConfigThreads:
\*   at = "idle"   outside ConfigCell::set
\*        "swap"   set(config) called, before `initialized.swap(true)`
\*        "write"  the swap returned false: before or in `*value = config`
Configs == [enable_gc : BOOLEAN, cache_size : {0, 1}]
ConfigThreads == {"set1", "set2"}
Idle == [at |-> "idle", config |-> Config_default]

\* A fresh disk without GC and the threads T, each at location `at`.
InitThreads(T, at) ==
    /\ enable_gc = FALSE
    /\ data_buf = <<>>
    /\ memtable = EmptyTable
    /\ ssts = <<>>
    /\ rit = [h \in HBAs |-> NoLba]
    /\ dealloc_table = [h \in HBAs |-> FALSE]
    /\ disk = [h \in HBAs |-> NoData]
    /\ bitmap = AllFree
    /\ num_free = NBLOCKS
    /\ next_avail = 0
    /\ segs = NewSegmentTable
    /\ is_dirty = FALSE
    /\ is_active = TRUE
    /\ bvt = <<>>
    /\ seg_log = <<>>
    /\ bal = <<>>
    /\ p_wal = EmptyTable
    /\ nkeys = 0
    /\ nwrites = 0
    /\ last = [l \in LBAs |-> 0]
    /\ durable = [l \in LBAs |-> 0]
    /\ phase = "run"
    /\ rd = <<>>
    /\ nops = 0
    /\ ret = <<>>
    /\ write_sync_region = [readers |-> 0, writer |-> FALSE]
    /\ ConfigIdle
    /\ gc_in_progress = FALSE
    /\ compaction_in_progress = FALSE
    /\ pc = [t \in T |-> at]
    /\ rounds = [t \in T |-> 0]
    /\ gc_mode = "run"
    /\ earlier = FALSE

InitConfig == InitThreads(ConfigThreads, Idle)

ConfigFrame ==
    UNCHANGED <<diskVars, gc_in_progress, compaction_in_progress, gc_mode, earlier, nops,
                write_sync_region, is_dropped, cursor>>

\* The values a read of the cell can produce: its value, or, while a thread
\* is in its unsynchronised write of `new`, any mix of the fields of both.
Readable(cell, at) ==
    {cell.value} \cup
    UNION {[enable_gc : {cell.value.enable_gc, at[t].config.enable_gc},
            cache_size : {cell.value.cache_size, at[t].config.cache_size}]
           : t \in {u \in DOMAIN at : at[u].at = "write"}}

\* The history after a set of `config` is called, and after it has returned.
Called(h, config) ==
    [h EXCEPT !.called = IF @ = <<>> THEN <<config>> ELSE @]
Completed(h, config) ==
    [h EXCEPT !.completed = IF @ = <<>> THEN <<config>> ELSE @]

\* A thread calls CONFIG.set(config).
set_call(t, config) ==
    /\ pc[t].at = "idle"
    /\ rounds[t] < MaxRounds
    /\ pc' = [pc EXCEPT ![t] = [at |-> "swap", config |-> config]]
    /\ set_first' = Called(set_first, config)
    /\ UNCHANGED <<CONFIG, built, ret, rounds>>
    /\ ConfigFrame

\* ConfigCell::set: `if !self.initialized.swap(true, SeqCst)`; when the cell
\* was initialised already the set is ignored and returns.
set_swap(t) ==
    /\ pc[t].at = "swap"
    /\ CONFIG' = [CONFIG EXCEPT !.initialized = TRUE]
    /\ pc' = [pc EXCEPT ![t] = IF CONFIG.initialized THEN Idle
                                ELSE [at |-> "write", config |-> pc[t].config]]
    /\ rounds' = [rounds EXCEPT ![t] = IF CONFIG.initialized THEN @ + 1 ELSE @]
    /\ set_first' = IF CONFIG.initialized THEN Completed(set_first, pc[t].config)
                    ELSE set_first
    /\ UNCHANGED <<built, ret>>
    /\ ConfigFrame

\* ConfigCell::set: `*self.value.get() = config`, and the return.
set_write(t) ==
    /\ pc[t].at = "write"
    /\ CONFIG' = [CONFIG EXCEPT !.value = pc[t].config]
    /\ pc' = [pc EXCEPT ![t] = Idle]
    /\ rounds' = [rounds EXCEPT ![t] = @ + 1]
    /\ set_first' = Completed(set_first, pc[t].config)
    /\ UNCHANGED <<built, ret>>
    /\ ConfigFrame

\* ConfigCell::get, recorded with the history at the call.
ConfigCell_get ==
    /\ \E v \in Readable(CONFIG, pc) : ret' = <<"get", v, set_first>>
    /\ UNCHANGED <<CONFIG, built, set_first, pc, rounds>>
    /\ ConfigFrame

\* ConfigCell::set as one step of create and open.
ConfigCell_set(cell, config) ==
    IF cell.initialized THEN cell ELSE [initialized |-> TRUE, value |-> config]

\* What create and open build from their enable_gc argument and from the
\* configuration `v` that AllocTable::new and AllocTable::recover read.
Build(v, arg_enable_gc) ==
    [enable_gc |-> arg_enable_gc,
     segment_table |-> v.enable_gc,
     reverse_index_table |-> arg_enable_gc,
     dealloc_table |-> TRUE,
     gc_worker |-> arg_enable_gc]

\* The cell after `if let Some(cfg) = config { CONFIG.set(cfg) }`.
SetIfSome(cell, config) ==
    IF config = <<>> THEN cell ELSE ConfigCell_set(cell, config[1])

\* SwornDisk::create and SwornDisk::open with the optional configuration
\* `config` (<<>> or <<config>>) and the enable_gc argument.
SwornDisk_create(config, arg_enable_gc) ==
    /\ built = <<>>
    /\ CONFIG' = SetIfSome(CONFIG, config)
    /\ set_first' = IF config = <<>> THEN set_first
                    ELSE Completed(Called(set_first, config[1]), config[1])
    /\ \E v \in Readable(SetIfSome(CONFIG, config), pc) : built' = Build(v, arg_enable_gc)
    /\ UNCHANGED <<ret, pc, rounds>>
    /\ ConfigFrame

\* The disk that was built is dropped: another create or open may follow.
BuiltDropped ==
    /\ built # <<>>
    /\ built' = <<>>
    /\ UNCHANGED <<CONFIG, set_first, ret, pc, rounds>>
    /\ ConfigFrame

NextConfig ==
    \/ \E t \in ConfigThreads, config \in Configs : set_call(t, config)
    \/ \E t \in ConfigThreads : set_swap(t)
    \/ \E t \in ConfigThreads : set_write(t)
    \/ ConfigCell_get
    \/ \E config \in {<<>>} \cup {<<c>> : c \in Configs}, arg \in BOOLEAN :
           SwornDisk_create(config, arg)
    \/ BuiltDropped

SpecConfig == InitConfig /\ [][NextConfig]_vars

\* C23: the configuration is one-shot: a CONFIG.get that follows the first
\* completed set returns the configuration of the first set (the first one
\* called or the first one completed, whichever is meant).
C23_FirstSetWins ==
    (ret # <<>> /\ ret[1] = "get" /\ ret[3].completed # <<>>) =>
        ret[2] \in Range(ret[3].called) \cup Range(ret[3].completed)

\* C24: enable_gc controls the GC structures together: a disk built with a
\* GC worker has a segment table, a reverse index and a dealloc table, and a
\* disk built with the argument false has no segment table, no reverse index
\* and no GC worker.
C24_GcPartsTogether ==
    built # <<>> =>
        /\ built.gc_worker =>
               built.segment_table /\ built.reverse_index_table /\ built.dealloc_table
        /\ ~built.enable_gc =>
               ~built.segment_table /\ ~built.reverse_index_table /\ ~built.gc_worker

\* ------------------------------------------- the allocator and its logs
\* A minor compaction TX that adds the records of the allocated blocks A:
\* alloc_block for each, then update_diff_log and update_alloc_table.
AllocTxOp(A) ==
    /\ A # {}
    /\ \A h \in A : ~bitmap[h]
    /\ AllocStep(ListenerCommit(St, [h \in HBAs |-> IF h \in A THEN TAG_ALLOC ELSE 0]))
    /\ ret' = <<>>

\* Batch allocations, committed TXs with their BAL diff logs, do_compaction
\* snapshots and recover.
NextRecover ==
    \/ \E n \in 1..NBLOCKS : AllocBatchOp(n)
    \/ \E A \in SUBSET HBAs : AllocTxOp(A)
    \/ \E D \in SUBSET HBAs : DeallocTxOp(D)
    \/ \E fault \in 0..MaxFault : DoCompactionOp(fault)
    \/ RecoverOp

SpecRecover == InitAlloc /\ [][NextRecover]_vars

\* Recovery from the persisted logs of state s yields the in-memory bitmap
\* of s, with num_free its number of free bits.
RecoversTo(r, s) == r.bitmap = s.bitmap /\ r.num_free = count_ones(s.bitmap)

\* C21: right after a TX that persisted a BAL diff log has committed, or
\* do_compaction has written its snapshot, AllocTable::recover rebuilds the
\* bitmap as it is then, with num_free equal to its number of free bits.
C21_RecoverRebuildsCommittedBitmap ==
    [][(Len(bal') > Len(bal) \/ bvt' # bvt) => RecoversTo(AllocTable_recover(St'), St')]_vars

\* The number of the HBAs `hbas` that lie in segment sid.
CountIn(hbas, sid) == Cardinality({i \in 1..Len(hbas) : SegOf(hbas[i]) = sid})

\* A step in which alloc_batch(n) returned Ok(hbas).
AllocBatchOk(n, hbas) ==
    /\ Len(hbas) = n
    /\ Cardinality(Range(hbas)) = n
    /\ \A h \in Range(hbas) : bitmap[h]
    /\ bitmap' = [h \in HBAs |-> IF h \in Range(hbas) THEN FALSE ELSE bitmap[h]]
    /\ num_free' = num_free - n
    /\ enable_gc =>
           \A sid \in SegIds :
               /\ segs'[sid].free_space = segs[sid].free_space - CountIn(hbas, sid)
               /\ segs'[sid].valid_block = segs[sid].valid_block
    /\ next_avail + n > NBLOCKS => hbas[1] = first_one(bitmap, 0)
    /\ (next_avail + n <= NBLOCKS /\ first_ones(bitmap, next_avail, n) # <<>>) =>
           hbas[1] = first_one(bitmap, next_avail)

\* A step that records the return `r` of alloc_batch.
AllocBatchAsClaimed(r) ==
    (r # <<>> /\ r[1] = "alloc_batch") =>
        IF r[4] = "Ok" THEN AllocBatchOk(r[2], r[5])
        ELSE UNCHANGED <<bitmap, num_free, next_avail, segs>>

\* C26: a successful alloc_batch(n) returns n pairwise distinct HBAs that
\* were free, clears their bits, decreases num_free by n and each owning
\* segment's free_space by its share, and leaves valid_block alone; the
\* search starts at next_avail and wraps to the first free HBA from 0 when
\* next_avail + n exceeds the total. A failing alloc_batch changes neither
\* the bitmap, num_free, next_avail nor a segment counter.
C26_AllocBatch == [][AllocBatchAsClaimed(ret')]_vars

\* A batch of two was allocated across the wrap: the search restarted at the
\* first free HBA below next_avail.
C26_Witness ==
    /\ ret # <<>>
    /\ ret[1] = "alloc_batch" /\ ret[2] = 2 /\ ret[4] = "Ok"
    /\ ret[6] + ret[2] > NBLOCKS
    /\ ret[5][1] < ret[6]
    /\ enable_gc

\* A step that records the return `r` of alloc or of set_deallocated, with a
\* segment table: the owning segment's counters move as claimed and the
\* other segments' stay; set_deallocated frees the bit and counts it.
CountersAsClaimed(r) ==
    /\ (r # <<>> /\ r[1] = "alloc" /\ r[2] # NoHba /\ enable_gc) =>
           segs' = [segs EXCEPT ![SegOf(r[2])].free_space = @ - 1]
    /\ (r # <<>> /\ r[1] = "set_deallocated") =>
           /\ bitmap' = [bitmap EXCEPT ![r[2]] = TRUE]
           /\ num_free' = num_free + 1
           /\ enable_gc =>
                  segs' = [segs EXCEPT ![SegOf(r[2])] =
                               [valid_block |-> @.valid_block - 1,
                                free_space |-> @.free_space + 1]]

\* C27: allocating a block decrements only the owning segment's free_space
\* and leaves valid_block unchanged; set_deallocated(h) sets bit h free,
\* increments num_free, decrements the owning segment's valid_block and
\* increments its free_space; the other segments' counters are unchanged.
C27_SegmentCounterAccounting == [][CountersAsClaimed(ret')]_vars

\* Two blocks of segment 0 were allocated and one of them was deallocated:
\* the segment counts one block less as valid and one free.
C27_Witness ==
    /\ enable_gc
    /\ ret = <<"set_deallocated", 0>>
    /\ bitmap[0] /\ ~bitmap[1]
    /\ segs[0] = [valid_block |-> SEGMENT_SIZE - 1, free_space |-> 1]
    /\ segs[1] = Segment_new

\* A step that records the return `r` of do_compaction.
CompactionAsClaimed(r) ==
    (r # <<>> /\ r[1] = "do_compaction") =>
        /\ r[3] \in {"Ok", "TxAborted"}
        /\ ~is_dirty => r[3] = "Ok" /\ UNCHANGED storeVars
        /\ (is_dirty /\ r[3] = "Ok") =>
               /\ bvt' = <<bitmap>>
               /\ enable_gc => seg_log' = <<segs>>
               /\ bal' = <<>>
               /\ ~is_dirty'
        /\ r[4] => r[3] = "TxAborted"
        /\ r[3] = "TxAborted" => UNCHANGED <<bvt, seg_log, bal>> /\ is_dirty'

\* C30: do_compaction does nothing unless the table is dirty; when it
\* succeeds exactly one BVT log (and, with a segment table, exactly one SEG
\* log) holds the snapshot, no BAL log remains and is_dirty is false; when an
\* operation of its TX fails the TX is aborted, TxAborted is returned, the
\* logs persisted before are unchanged and is_dirty stays true.
C30_DoCompaction == [][CompactionAsClaimed(ret')]_vars

\* ------------------------------------- a TX's commit and do_compaction
\* The compaction thread's TX in the two callbacks of its listener, with
\* the allocator's other callers between them.  The thread's location is
\* [at, dt]: "idle", or "precommitted" with the diff table dt once
\* on_tx_precommit has persisted the BAL log and before on_tx_commit.
TxIdle == [at |-> "idle", dt |-> EmptyDiff]

InitCommit == InitThreads({"compaction"}, TxIdle)

\* A step of the compaction thread's TX that leaves the state s.
CommitStep(s) ==
    /\ nops < MaxAllocOps
    /\ nops' = nops + 1
    /\ Becomes(s)
    /\ ret' = <<>>
    /\ UNCHANGED <<nwrites, last, durable, phase, rd, gc_in_progress, compaction_in_progress,
                   rounds, gc_mode, earlier, write_sync_region, configVars>>

\* TxLsmTreeListener::on_tx_precommit of a TX that drops the records of the
\* allocated blocks D: update_diff_log; the TX of the log store commits.
on_tx_precommit(D) ==
    /\ pc["compaction"].at = "idle"
    /\ D # {}
    /\ \A h \in D : ~bitmap[h]
    /\ CommitStep(update_diff_log(St, [h \in HBAs |-> IF h \in D THEN TAG_DEALLOC ELSE 0]))
    /\ pc' = [pc EXCEPT !["compaction"] =
                  [at |-> "precommitted",
                   dt |-> [h \in HBAs |-> IF h \in D THEN TAG_DEALLOC ELSE 0]]]

\* TxLsmTreeListener::on_tx_commit: update_alloc_table
on_tx_commit ==
    /\ pc["compaction"].at = "precommitted"
    /\ CommitStep(update_alloc_table(St, pc["compaction"].dt))
    /\ pc' = [pc EXCEPT !["compaction"] = TxIdle]

NextCommit ==
    \/ \E n \in 1..NBLOCKS : AllocBatchOp(n)
    \/ \E D \in SUBSET HBAs : on_tx_precommit(D)
    \/ on_tx_commit
    \/ DoCompactionOp(0)

SpecCommit == InitCommit /\ [][NextCommit]_vars

\* A step of do_compaction that deletes the BAL log of a TX between its
\* precommit and its commit persists a snapshot with that log's
\* deallocations; and once the TX has committed and the table is clean,
\* recovery rebuilds the in-memory bitmap.
DiffKept ==
    /\ (pc["compaction"].at = "precommitted" /\ bal # <<>> /\ bal' = <<>>) =>
           \A h \in HBAs : pc["compaction"].dt[h] = TAG_DEALLOC => bvt'[1][h]
    /\ (pc'["compaction"].at = "idle" /\ ~is_dirty') =>
           AllocTable_recover(St').bitmap = bitmap'

\* C37: do_compaction never loses a committed diff: running between the
\* persisting of a TX's BAL log and that TX's update_alloc_table, it never
\* deletes the log while persisting a snapshot without the log's
\* deallocations; after any interleaving recovery yields the in-memory
\* bitmap as it is after the commits.
C37_CompactionKeepsCommittedDiff == [][DiffKept]_vars

\* ---------------------------------------------------- the victim policies
\* The policies applied to segment tables of 1..MaxTable segments: every
\* valid_block within 0..SEGMENT_SIZE, every bitmap, every cursor position.
MaxTable == 3
Thresholds == {ACTIVE_GC_THRESHOLD_TENTHS, INACTIVE_GC_THRESHOLD_TENTHS}

\* The segment tables of n segments over the bitmap bm.
TablesOver(n, bm) ==
    {[i \in 0..(n - 1) |->
         [valid_block |-> v[i],
          free_space |-> Cardinality({h \in DOMAIN bm : SegOf(h) = i /\ bm[h]})]] :
     v \in [0..(n - 1) -> 0..SEGMENT_SIZE]}

InitPolicy ==
    /\ \E n \in 1..MaxTable :
           /\ bitmap \in [0..(n * SEGMENT_SIZE - 1) -> BOOLEAN]
           /\ segs \in TablesOver(n, bitmap)
           /\ cursor \in 0..(n - 1)
    /\ enable_gc = TRUE
    /\ data_buf = <<>>
    /\ memtable = EmptyTable
    /\ ssts = <<>>
    /\ rit = [h \in HBAs |-> NoLba]
    /\ dealloc_table = [h \in HBAs |-> FALSE]
    /\ disk = [h \in HBAs |-> NoData]
    /\ num_free = 0
    /\ next_avail = 0
    /\ is_dirty = FALSE
    /\ is_active = TRUE
    /\ bvt = <<>>
    /\ seg_log = <<>>
    /\ bal = <<>>
    /\ p_wal = EmptyTable
    /\ nkeys = 0
    /\ nwrites = 0
    /\ last = [l \in LBAs |-> 0]
    /\ durable = [l \in LBAs |-> 0]
    /\ phase = "run"
    /\ rd = <<>>
    /\ nops = 0
    /\ ret = <<>>
    /\ write_sync_region = [readers |-> 0, writer |-> FALSE]
    /\ is_dropped = FALSE
    /\ CONFIG = [initialized |-> FALSE, value |-> Config_default]
    /\ built = <<>>
    /\ set_first = [called |-> <<>>, completed |-> <<>>]
    /\ gc_in_progress = FALSE
    /\ compaction_in_progress = FALSE
    /\ pc = [t \in Threads |-> "idle"]
    /\ rounds = [t \in Threads |-> 0]
    /\ gc_mode = "run"
    /\ earlier = FALSE

PolicyFrame ==
    UNCHANGED <<diskVars, barrierVars, nops, write_sync_region, is_dropped, CONFIG, built,
                set_first>>

\* GreedyVictimPolicy::pick_victim with the threshold `tenths`
Greedy_pick_victim(tenths) ==
    /\ ret' = <<"greedy", tenths, pick_victim(segs, tenths),
                IF pick_victim(segs, tenths) = NoSeg THEN <<>>
                ELSE find_all_allocated_blocks(bitmap, pick_victim(segs, tenths))>>
    /\ UNCHANGED cursor
    /\ PolicyFrame

\* The return `r` of LoopScanVictimPolicy::pick_victim.
LoopScanReturned(r, tenths) ==
    /\ ret' = <<"loop_scan", tenths, r.victim,
                IF r.victim = NoSeg THEN <<>>
                ELSE find_all_allocated_blocks(bitmap, r.victim)>>
    /\ cursor' = r.cursor
    /\ PolicyFrame

\* LoopScanVictimPolicy::pick_victim with the threshold `tenths`
LoopScan_pick(tenths) == LoopScanReturned(LoopScan_pick_victim(segs, tenths, cursor), tenths)

NextPolicy ==
    \/ \E tenths \in Thresholds : Greedy_pick_victim(tenths)
    \/ \E tenths \in Thresholds : LoopScan_pick(tenths)

SpecPolicy == InitPolicy /\ [][NextPolicy]_vars

\* Segment i of the table has an invalid fraction above tenths / 10.
Exceeds(i, tenths) == (SEGMENT_SIZE - segs[i].valid_block) * 10 > tenths * SEGMENT_SIZE

\* The allocated HBAs of segment i, ascending.
AllocatedIn(i) ==
    SortedSeq({h \in (i * SEGMENT_SIZE)..((i + 1) * SEGMENT_SIZE - 1) : ~bitmap[h]})

\* A step that records the return `r` of the greedy policy.
GreedyAsClaimed(r) ==
    (r # <<>> /\ r[1] = "greedy") =>
        /\ r[3] = NoSeg <=> ~\E i \in DOMAIN segs : Exceeds(i, r[2])
        /\ r[3] # NoSeg =>
               /\ Exceeds(r[3], r[2])
               /\ \A i \in DOMAIN segs :
                      Exceeds(i, r[2]) =>
                          \/ segs[i].valid_block > segs[r[3]].valid_block
                          \/ segs[i].valid_block = segs[r[3]].valid_block /\ r[3] <= i
               /\ r[4] = AllocatedIn(r[3])

\* C32: the greedy pick_victim returns None if and only if no segment has
\* an invalid fraction strictly above the threshold; otherwise it returns
\* the segment with the most invalid blocks among those above it, the
\* lowest id on ties, with exactly the HBAs of that segment whose bit is 0.
C32_GreedyVictim == [][GreedyAsClaimed(ret')]_vars

\* The greedy policy chose the lower of two segments that tie above the
\* threshold, and the victim has both an allocated and a free block.
C32_Witness ==
    /\ ret # <<>> /\ ret[1] = "greedy" /\ ret[3] # NoSeg
    /\ \E i \in DOMAIN segs :
           /\ i > ret[3]
           /\ segs[i].valid_block = segs[ret[3]].valid_block
    /\ Len(ret[4]) = 1

\* The segments from the one after `from` to `to`, in round-robin order.
Between(from, to, n) ==
    {(from + k) % n : k \in 1..(IF to > from THEN to - from ELSE to - from + n)}

\* A step that records the return `r` of the loop-scan policy.
LoopScanAsClaimed(r) ==
    (r # <<>> /\ r[1] = "loop_scan") =>
        /\ r[3] = NoSeg => ~\E i \in DOMAIN segs : Exceeds(i, r[2])
        /\ r[3] # NoSeg =>
               /\ Exceeds(r[3], r[2])
               /\ cursor' = r[3]
               /\ \A i \in Between(cursor, r[3], TableLen(segs)) \ {r[3]} :
                      ~Exceeds(i, r[2])

\* C33: the loop-scan pick_victim returns the first segment, in round-robin
\* order from the cursor, whose invalid fraction exceeds the threshold, and
\* moves the cursor to it; it returns None only when no segment of the
\* table exceeds the threshold, the one at the cursor included.
C33_LoopScanVictim == [][LoopScanAsClaimed(ret')]_vars

\* ------------------------------------------------- the calls of the disk
\* SwornDisk's public calls with their argument check and their return
\* value, on a disk without GC whose whole LBA space is written, and with a
\* put of the forward index that may fail.  ret is
\* <<name, lba, blocks, outcome, calls made>>.

\* A check_rw_args that rejects the last block of the disk.
check_rw_args_exclusive(lba, buf_nblocks) == lba + buf_nblocks < total_blocks

\* SwornDisk::check_rw_args: TRUE for Ok, FALSE for Err(OutOfDisk).
check_rw_args(lba, buf_nblocks) == lba + buf_nblocks <= total_blocks

\* The errno of a failed DiskInner::write or sync: that of the put that
\* failed, otherwise that of alloc_batch.
Errno(s) ==
    IF s.calls # <<>> /\ s.calls[Len(s.calls)][1] = "put" THEN "IoError" ELSE "OutOfDisk"

Panicked == ret # <<>> /\ ret[4] = "panic"

InitCalls == Init /\ ~enable_gc

CallFrame ==
    UNCHANGED <<last, durable, phase, rd, barrierVars, nops, write_sync_region,
                configVars>>

\* The return `r` of DiskInner::write to the caller of write or writev.
WriteReturned(r, lba, n) ==
    /\ Becomes(r.s)
    /\ ret' = <<"write", lba, n, IF r.ok THEN "Ok" ELSE Errno(r.s), r.s.calls>>

\* SwornDisk::write (n = 1) and SwornDisk::writev (n > 1); the put number
\* `fault` of the forward index fails (0: none).
SwornDisk_write(lba, n, fault) ==
    /\ ~Panicked
    /\ IF ~check_rw_args(lba, n)
       THEN /\ ret' = <<"write", lba, n, "OutOfDisk", <<>>>>
            /\ UNCHANGED <<storeVars, nwrites>>
       ELSE /\ nwrites + n <= MaxCallWrites
            /\ WriteReturned(DiskInner_write([St EXCEPT !.put_fault = fault], lba,
                                             [i \in 1..n |-> 1]), lba, n)
            /\ nwrites' = nwrites + n
    /\ CallFrame

\* SwornDisk::read (n = 1) and SwornDisk::readv (n > 1).
SwornDisk_read(lba, n) ==
    /\ ~Panicked
    /\ ret' = <<"read", lba, n,
                IF ~check_rw_args(lba, n) THEN "OutOfDisk"
                ELSE IF DecryptErr \in Range(IF n = 1 THEN <<read_one_block(St, lba)>>
                                             ELSE read_multi_blocks(St, lba, n))
                     THEN "Err" ELSE "Ok",
                <<>>>>
    /\ UNCHANGED <<storeVars, nwrites>>
    /\ CallFrame

\* The return `r` of DiskInner::sync, which SwornDisk::sync unwraps.
SyncReturned(r) ==
    /\ Becomes(r.s)
    /\ ret' = <<"sync", 0, 0, IF r.ok THEN "Ok" ELSE "panic", r.s.calls>>

\* SwornDisk::sync
SwornDisk_sync ==
    /\ ~Panicked
    /\ SyncReturned(DiskInner_sync(St))
    /\ UNCHANGED nwrites
    /\ CallFrame

\* The LSM's own minor compaction between two calls.
BackgroundCompaction == ~Panicked /\ MinorCompaction

NextCalls ==
    \/ \E lba \in 0..total_blocks, n \in 1..2, fault \in {0, DATA_BUF_CAP} :
           SwornDisk_write(lba, n, fault)
    \/ \E lba \in (total_blocks - 2)..total_blocks, n \in 1..2 : SwornDisk_read(lba, n)
    \/ SwornDisk_sync
    \/ BackgroundCompaction

SpecCalls == InitCalls /\ [][NextCalls]_vars

\* ------------------------------------------------- claims on the calls
\* The calls that the last recorded call made.
RetCalls == IF ret = <<>> THEN <<>> ELSE ret[5]
FailedAllocAt(calls, i) == calls[i][1] = "alloc_batch" /\ calls[i][3] = "OutOfDisk"

\* C16: a flush whose batch allocation fails with OutOfDisk requests one
\* manual compaction and retries the allocation once, and no more of either;
\* when the retry fails too, the call returns OutOfDisk (it does not panic)
\* and the data buffer holds what it held when the flush began.
C16_OutOfDiskRetriedOnceThenReturned ==
    \A i \in 1..Len(RetCalls) :
        (RetCalls[i][1] = "flush_data_buf" /\ i < Len(RetCalls)
         /\ FailedAllocAt(RetCalls, i + 1)) =>
            /\ Len(RetCalls) >= i + 3
            /\ RetCalls[i + 2] = <<"manual_compaction">>
            /\ RetCalls[i + 3][1] = "alloc_batch"
            /\ \A j \in (i + 4)..Len(RetCalls) :
                   RetCalls[j][1] \notin {"manual_compaction", "alloc_batch"}
            /\ FailedAllocAt(RetCalls, i + 3) =>
                   ret[4] = "OutOfDisk" /\ data_buf = RetCalls[i][2]

\* The puts of the forward index that the last recorded call made.
RetPuts == {j \in 1..Len(RetCalls) : RetCalls[j][1] = "put"}

\* C17: when a put of a flushed batch fails, no record of the batch is
\* visible in the forward index afterwards; when the flush succeeds, all are.
C17_FlushedBatchIsAtomic ==
    IF \E j \in RetPuts : RetCalls[j][4] = "Err"
    THEN \A j \in RetPuts :
             RetCalls[j][4] = "Ok" => Lsm_get(St, RetCalls[j][2]) # RetCalls[j][3]
    ELSE \A j \in RetPuts : Lsm_get(St, RetCalls[j][2]) = RetCalls[j][3]

\* A step that records the return `r` of a read, readv, write or writev:
\* out of range it is OutOfDisk and the data buffer, the index and the
\* allocator are as before; in range an OutOfDisk can only come from a
\* batch allocation of the flush.
ArgumentsCheckedIn(r) ==
    (r # <<>> /\ r[1] \in {"read", "write"}) =>
        IF r[2] + r[3] > total_blocks
        THEN r[4] = "OutOfDisk" /\ (r # ret => UNCHANGED storeVars)
        ELSE r[4] = "OutOfDisk" => \E j \in 1..Len(r[5]) : FailedAllocAt(r[5], j)

\* C18: read, readv, write and writev of n >= 1 blocks at lba return
\* OutOfDisk and change nothing when lba + n > total_blocks, and pass the
\* check when lba + n <= total_blocks: a one-block write at total_blocks - 1
\* is accepted, at total_blocks it is OutOfDisk.
C18_ArgumentsChecked == [][ArgumentsCheckedIn(ret')]_vars

\* A one-block write at the last LBA returned Ok and its flush put the
\* record of that LBA into the forward index.
C18_Witness ==
    /\ ret # <<>>
    /\ ret[1] = "write" /\ ret[2] = total_blocks - 1 /\ ret[3] = 1 /\ ret[4] = "Ok"
    /\ \E j \in RetPuts : RetCalls[j][2] = total_blocks - 1
    /\ Lsm_get(St, total_blocks - 1) # NoRec

\* ------------------------------------------------- the write-sync region
\* The calls of write and sync as threads around DiskInner.write_sync_region.
\* pc: "idle"    outside a call
\*     "lock"    in the call, in RwLock::read (write) or RwLock::write (sync)
\*     "inner"   holding the guard, in DiskInner::write or DiskInner::sync
\*     "return"  DiskInner's method returned, the guard not yet dropped
Writers == {"write1", "write2"}
Syncers == {"sync1"}
LockThreads == Writers \cup Syncers

\* RwLock::read returns once no writer holds the lock.
RwLock_read_free(l) == ~l.writer
\* A lock whose write() does not wait for the readers.
RwLock_write_free_unshared(l) == ~l.writer
\* RwLock::write returns once nobody holds the lock.
RwLock_write_free(l) == ~l.writer /\ l.readers = 0

InitLock ==
    /\ enable_gc = FALSE
    /\ data_buf = <<>>
    /\ memtable = EmptyTable
    /\ ssts = <<>>
    /\ rit = [h \in HBAs |-> NoLba]
    /\ dealloc_table = [h \in HBAs |-> FALSE]
    /\ disk = [h \in HBAs |-> NoData]
    /\ bitmap = AllFree
    /\ num_free = NBLOCKS
    /\ next_avail = 0
    /\ segs = NewSegmentTable
    /\ is_dirty = FALSE
    /\ is_active = TRUE
    /\ bvt = <<>>
    /\ seg_log = <<>>
    /\ bal = <<>>
    /\ p_wal = EmptyTable
    /\ nkeys = 0
    /\ nwrites = 0
    /\ last = [l \in LBAs |-> 0]
    /\ durable = [l \in LBAs |-> 0]
    /\ phase = "run"
    /\ rd = <<>>
    /\ nops = 0
    /\ ret = <<>>
    /\ write_sync_region = [readers |-> 0, writer |-> FALSE]
    /\ ConfigIdle
    /\ gc_in_progress = FALSE
    /\ compaction_in_progress = FALSE
    /\ pc = [t \in LockThreads |-> "idle"]
    /\ rounds = [t \in LockThreads |-> 0]
    /\ gc_mode = "run"
    /\ earlier = FALSE

LockFrame ==
    UNCHANGED <<gc_in_progress, compaction_in_progress, gc_mode, earlier, nops, ret,
                configVars>>

\* Thread t moves from location `from` to location `to`.
Goes(t, from, to) ==
    /\ pc[t] = from
    /\ pc' = [pc EXCEPT ![t] = to]
    /\ rounds' = [rounds EXCEPT ![t] = IF to = "idle" THEN @ + 1 ELSE @]

\* A thread calls SwornDisk::write (its arguments are in range) or
\* SwornDisk::sync.
call(t) ==
    /\ rounds[t] < MaxRounds
    /\ Goes(t, "idle", "lock")
    /\ UNCHANGED <<diskVars, write_sync_region>>
    /\ LockFrame

\* SwornDisk::write: `let _rguard = self.inner.write_sync_region.read()`
write_sync_region_read(t) ==
    /\ t \in Writers
    /\ RwLock_read_free(write_sync_region)
    /\ Goes(t, "lock", "inner")
    /\ write_sync_region' = [write_sync_region EXCEPT !.readers = @ + 1]
    /\ UNCHANGED diskVars
    /\ LockFrame

\* SwornDisk::write: `self.inner.write(lba, buf)` of one block, the put
\* into the data buffer and the flush at capacity.
inner_write(t, lba) ==
    /\ t \in Writers
    /\ Goes(t, "inner", "return")
    /\ Written(DiskInner_write(St, lba, <<nwrites + 1>>), lba, 1)
    /\ nwrites' = nwrites + 1
    /\ phase' = "run"
    /\ rd' = <<>>
    /\ UNCHANGED <<durable, write_sync_region>>
    /\ LockFrame

\* SwornDisk::write returns: _rguard is dropped.
write_return(t) ==
    /\ t \in Writers
    /\ Goes(t, "return", "idle")
    /\ write_sync_region' = [write_sync_region EXCEPT !.readers = @ - 1]
    /\ UNCHANGED diskVars
    /\ LockFrame

\* SwornDisk::sync: `let _wguard = self.inner.write_sync_region.write()`
write_sync_region_write(t) ==
    /\ t \in Syncers
    /\ RwLock_write_free(write_sync_region)
    /\ Goes(t, "lock", "inner")
    /\ write_sync_region' = [write_sync_region EXCEPT !.writer = TRUE]
    /\ UNCHANGED diskVars
    /\ LockFrame

\* SwornDisk::sync: `self.inner.sync().unwrap()`
inner_sync(t) ==
    /\ t \in Syncers
    /\ DiskInner_sync(St).ok
    /\ Goes(t, "inner", "return")
    /\ Synced(DiskInner_sync(St))
    /\ rd' = <<>>
    /\ UNCHANGED <<nwrites, last, write_sync_region>>
    /\ LockFrame

\* SwornDisk::sync returns: _wguard is dropped.
sync_return(t) ==
    /\ t \in Syncers
    /\ Goes(t, "return", "idle")
    /\ write_sync_region' = [write_sync_region EXCEPT !.writer = FALSE]
    /\ UNCHANGED diskVars
    /\ LockFrame

NextLock ==
    \/ \E t \in LockThreads : call(t)
    \/ \E t \in Writers : write_sync_region_read(t)
    \/ \E t \in Writers, lba \in 0..(NLba - 1) : inner_write(t, lba)
    \/ \E t \in Writers : write_return(t)
    \/ \E t \in Syncers : write_sync_region_write(t)
    \/ \E t \in Syncers : inner_sync(t)
    \/ \E t \in Syncers : sync_return(t)

SpecLock == InitLock /\ [][NextLock]_vars

\* A sync holds the lock: from its acquisition to its return.
SyncHolds == \E t \in Syncers : pc[t] \in {"inner", "return"}

\* A step taken while a sync holds the lock: no write is or gets between
\* its acquisition of the lock and its return, no block is put into the data
\* buffer, and the buffer, the index and the allocator change only by the
\* sync itself.
SyncAlone ==
    SyncHolds =>
        /\ \A w \in Writers : pc[w] \in {"idle", "lock"} /\ pc'[w] \in {"idle", "lock"}
        /\ nwrites' = nwrites
        /\ ~(UNCHANGED storeVars) =>
               \E t \in Syncers : pc[t] = "inner" /\ pc'[t] = "return"

LbaOf(t) == IF t = "write1" THEN 0 ELSE 1
WriterIdle == [at |-> "idle", lba |-> 0, data |-> 0]

InitFlush == InitThreads(Writers, WriterIdle)

FlushFrame ==
    UNCHANGED <<gc_in_progress, compaction_in_progress, gc_mode, earlier, nops, ret,
                write_sync_region, configVars>>

\* DiskInner::write returns Ok to thread t: its block is acknowledged.
Acknowledged(t, lba, data) ==
    /\ pc' = [pc EXCEPT ![t] = WriterIdle]
    /\ rounds' = [rounds EXCEPT ![t] = @ + 1]
    /\ last' = [last EXCEPT ![lba] = data]

\* DiskInner::write: `self.data_buf.put(RecordKey { lba }, block_buf)`
write_put(t) ==
    /\ pc[t].at = "idle"
    /\ rounds[t] < MaxRounds
    /\ data_buf' = DataBuf_put(data_buf, LbaOf(t), nwrites + 1)
    /\ nwrites' = nwrites + 1
    /\ IF DataBuf_at_capacity(data_buf')
       THEN /\ pc' = [pc EXCEPT ![t] = [at |-> "flush", lba |-> LbaOf(t),
                                         data |-> nwrites + 1]]
            /\ UNCHANGED <<rounds, last>>
       ELSE Acknowledged(t, LbaOf(t), nwrites + 1)
    /\ phase' = "run"
    /\ rd' = <<>>
    /\ UNCHANGED <<enable_gc, memtable, ssts, rit, dealloc_table, disk, bitmap, num_free,
                   next_avail, segs, is_dirty, is_active, bvt, seg_log, bal, p_wal, nkeys,
                   durable>>
    /\ FlushFrame

\* flush_data_buf of thread t, of result `f`, up to its record loop: an
\* error is returned to the caller of write; the buffer is not yet cleared.
flush_looped(t, f) ==
    /\ Becomes([f.s EXCEPT !.data_buf = data_buf, !.is_active = is_active])
    /\ pc' = [pc EXCEPT ![t] = IF f.ok THEN [@ EXCEPT !.at = "clear"] ELSE WriterIdle]
    /\ rounds' = [rounds EXCEPT ![t] = IF f.ok THEN @ ELSE @ + 1]

\* flush_data_buf from data_buf.all_blocks() to the end of its record loop
flush_collect(t) ==
    /\ pc[t].at = "flush"
    /\ flush_looped(t, flush_data_buf(St))
    /\ rd' = <<>>
    /\ UNCHANGED <<nwrites, last, durable, phase>>
    /\ FlushFrame

\* flush_data_buf: `self.is_active.store(true)`, `self.data_buf.clear()`,
\* and the return of DiskInner::write
flush_clear(t) ==
    /\ pc[t].at = "clear"
    /\ is_active' = TRUE
    /\ data_buf' = <<>>
    /\ Acknowledged(t, pc[t].lba, pc[t].data)
    /\ rd' = <<>>
    /\ UNCHANGED <<enable_gc, memtable, ssts, rit, dealloc_table, disk, bitmap, num_free,
                   next_avail, segs, is_dirty, bvt, seg_log, bal, p_wal, nkeys, nwrites,
                   durable, phase>>
    /\ FlushFrame

\* SwornDisk::sync, holding write_sync_region exclusively
exclusive_sync ==
    /\ \A t \in Writers : pc[t].at = "idle"
    /\ phase # "synced"
    /\ Synced(DiskInner_sync(St))
    /\ rd' = <<>>
    /\ UNCHANGED <<nwrites, last, pc, rounds>>
    /\ FlushFrame

NextFlush ==
    \/ \E t \in Writers : write_put(t)
    \/ \E t \in Writers : flush_collect(t)
    \/ \E t \in Writers : flush_clear(t)
    \/ exclusive_sync

SpecFlush == InitFlush /\ [][NextFlush]_vars

\* C36: no acknowledged write is lost by a concurrent flush: a block that a
\* writer put into the data buffer after another writer's flush collected
\* the buffer and before that flush clears it is readable once the writes
\* have returned, from the buffer or the index, and after the next sync
\* from the index.
C36_NoWriteLostByConcurrentFlush ==
    (\A t \in Writers : pc[t].at = "idle") =>
        \A lba \in 0..(NLba - 1) :
            last[lba] # 0 =>
                /\ read_one_block(St, lba) = last[lba]
                /\ phase = "synced" => read_one_block_unbuffered(St, lba) = last[lba]

\* ------------------------------------------------------------ the barrier
\* SharedState and the threads that call it.  Every step is one section under
\* one of the two mutexes (a check of a flag, a store to it, a notify_all) or
\* one thread's move into or out of the work the barrier protects.
\*   pc: "idle"    not in a call
\*       "waiting" inside Condvar::wait
\*       "woken"   notified, about to lock again and re-check the flag
\*       "passed"  the wait_for_* call has returned
\*       "started" the GC thread, after start_gc
\*       "cs"      GC: background_gc; compaction: the compaction TX
\*       "access"  I/O: reading or flushing through the index and the disk
IoThreads == {"io1", "io2"}
GcWaiters == IoThreads \cup {"compaction"}
GcModes == {"run", "discipline", "test"}

InitBarrier ==
    /\ enable_gc = TRUE
    /\ data_buf = <<>>
    /\ memtable = EmptyTable
    /\ ssts = <<>>
    /\ rit = [h \in HBAs |-> NoLba]
    /\ dealloc_table = [h \in HBAs |-> FALSE]
    /\ disk = [h \in HBAs |-> NoData]
    /\ bitmap = AllFree
    /\ num_free = NBLOCKS
    /\ next_avail = 0
    /\ segs = NewSegmentTable
    /\ is_dirty = FALSE
    /\ is_active = TRUE
    /\ bvt = <<>>
    /\ seg_log = <<>>
    /\ bal = <<>>
    /\ p_wal = EmptyTable
    /\ nkeys = 0
    /\ nwrites = 0
    /\ last = [l \in LBAs |-> 0]
    /\ durable = [l \in LBAs |-> 0]
    /\ phase = "run"
    /\ rd = <<>>
    /\ nops = 0
    /\ ret = <<>>
    /\ write_sync_region = [readers |-> 0, writer |-> FALSE]
    /\ ConfigIdle
    /\ gc_in_progress = FALSE
    /\ compaction_in_progress = FALSE
    /\ pc = [t \in Threads |-> "idle"]
    /\ rounds = [t \in Threads |-> 0]
    /\ gc_mode \in GcModes
    /\ earlier = FALSE

BarrierFrame == UNCHANGED <<diskVars, nops, gc_mode, ret, write_sync_region, configVars>>

\* SharedState::wait_for_background_gc, one pass of its loop: called by an
\* I/O thread or the compaction thread, or resumed after a wakeup.
wait_for_background_gc(t) ==
    /\ t \in GcWaiters
    /\ \/ pc[t] = "idle" /\ rounds[t] < MaxRounds
       \/ pc[t] = "woken"
    /\ pc' = [pc EXCEPT ![t] = IF gc_in_progress THEN "waiting" ELSE "passed"]
    /\ UNCHANGED <<gc_in_progress, compaction_in_progress, rounds, earlier>>
    /\ BarrierFrame

\* SharedState::wait_for_compaction, one pass of its loop: called by the GC
\* thread after start_gc ("discipline") or before it ("test").
wait_for_compaction ==
    /\ \/ gc_mode = "discipline" /\ pc["gc"] = "started"
       \/ gc_mode = "test" /\ pc["gc"] = "idle" /\ rounds["gc"] < MaxRounds
       \/ pc["gc"] = "woken"
    /\ pc' = [pc EXCEPT !["gc"] = IF compaction_in_progress THEN "waiting" ELSE "passed"]
    /\ UNCHANGED <<gc_in_progress, compaction_in_progress, rounds, earlier>>
    /\ BarrierFrame

\* Condvar::wait may return without a notification.
SpuriousWakeup(t) ==
    /\ pc[t] = "waiting"
    /\ pc' = [pc EXCEPT ![t] = "woken"]
    /\ UNCHANGED <<gc_in_progress, compaction_in_progress, rounds, earlier>>
    /\ BarrierFrame

\* SharedState::start_gc: first in GcWorker::run and under the stated
\* discipline, after wait_for_compaction in the tests.
start_gc ==
    /\ \/ gc_mode \in {"run", "discipline"} /\ pc["gc"] = "idle" /\ rounds["gc"] < MaxRounds
       \/ gc_mode = "test" /\ pc["gc"] = "passed"
    /\ gc_in_progress' = TRUE
    /\ earlier' = compaction_in_progress
    /\ pc' = [pc EXCEPT !["gc"] = "started"]
    /\ UNCHANGED <<compaction_in_progress, rounds>>
    /\ BarrierFrame

\* GcWorker::background_gc begins: it picks its first victim.
GcEnter ==
    /\ \/ gc_mode = "run" /\ pc["gc"] = "started"
       \/ gc_mode = "discipline" /\ pc["gc"] = "passed"
       \/ gc_mode = "test" /\ pc["gc"] = "started"
    /\ pc' = [pc EXCEPT !["gc"] = "cs"]
    /\ UNCHANGED <<gc_in_progress, compaction_in_progress, rounds, earlier>>
    /\ BarrierFrame

\* A notify_gc_finished that clears the flag and notifies nobody.
notify_gc_finished_silent ==
    /\ pc["gc"] = "cs"
    /\ gc_in_progress' = FALSE
    /\ pc' = [pc EXCEPT !["gc"] = "idle"]
    /\ rounds' = [rounds EXCEPT !["gc"] = @ + 1]
    /\ UNCHANGED <<compaction_in_progress, earlier>>
    /\ BarrierFrame

\* SharedState::notify_gc_finished, after background_gc returned Ok.
notify_gc_finished ==
    /\ pc["gc"] = "cs"
    /\ gc_in_progress' = FALSE
    /\ pc' = [t \in Threads |-> IF t = "gc" THEN "idle"
                                ELSE IF t \in GcWaiters /\ pc[t] = "waiting" THEN "woken"
                                ELSE pc[t]]
    /\ rounds' = [rounds EXCEPT !["gc"] = @ + 1]
    /\ UNCHANGED <<compaction_in_progress, earlier>>
    /\ BarrierFrame

\* SharedState::start_compaction, by the compaction thread once its
\* wait_for_background_gc has returned.
start_compaction ==
    /\ pc["compaction"] = "passed"
    /\ compaction_in_progress' = TRUE
    /\ pc' = [pc EXCEPT !["compaction"] = "cs"]
    /\ UNCHANGED <<gc_in_progress, rounds, earlier>>
    /\ BarrierFrame

\* SharedState::notify_compaction_finished
notify_compaction_finished ==
    /\ pc["compaction"] = "cs"
    /\ compaction_in_progress' = FALSE
    /\ earlier' = FALSE
    /\ pc' = [t \in Threads |-> IF t = "compaction" THEN "idle"
                                ELSE IF t = "gc" /\ pc[t] = "waiting" THEN "woken"
                                ELSE pc[t]]
    /\ rounds' = [rounds EXCEPT !["compaction"] = @ + 1]
    /\ UNCHANGED gc_in_progress
    /\ BarrierFrame

\* An I/O thread whose wait_for_background_gc returned goes on to the
\* forward index and the user-data disk (flush_data_buf, read_one_block,
\* read_multi_blocks).
IoEnter(t) ==
    /\ t \in IoThreads
    /\ pc[t] = "passed"
    /\ pc' = [pc EXCEPT ![t] = "access"]
    /\ UNCHANGED <<gc_in_progress, compaction_in_progress, rounds, earlier>>
    /\ BarrierFrame

\* The I/O request completes.
IoLeave(t) ==
    /\ t \in IoThreads
    /\ pc[t] = "access"
    /\ pc' = [pc EXCEPT ![t] = "idle"]
    /\ rounds' = [rounds EXCEPT ![t] = @ + 1]
    /\ UNCHANGED <<gc_in_progress, compaction_in_progress, earlier>>
    /\ BarrierFrame

NextBarrier ==
    \/ \E t \in GcWaiters : wait_for_background_gc(t)
    \/ wait_for_compaction
    \/ \E t \in Threads : SpuriousWakeup(t)
    \/ start_gc
    \/ GcEnter
    \/ notify_gc_finished
    \/ start_compaction
    \/ notify_compaction_finished
    \/ \E t \in IoThreads : IoEnter(t)
    \/ \E t \in IoThreads : IoLeave(t)

SpecBarrier == InitBarrier /\ [][NextBarrier]_vars

\* The threads are scheduled fairly; a spurious wakeup is never owed.
BarrierFairness ==
    /\ \A t \in GcWaiters : WF_vars(wait_for_background_gc(t))
    /\ WF_vars(wait_for_compaction)
    /\ WF_vars(start_gc)
    /\ WF_vars(GcEnter)
    /\ WF_vars(notify_gc_finished)
    /\ WF_vars(start_compaction)
    /\ WF_vars(notify_compaction_finished)
    /\ \A t \in IoThreads : WF_vars(IoEnter(t)) /\ WF_vars(IoLeave(t))

SpecBarrierFair == SpecBarrier /\ BarrierFairness

\* GcWorker::run when background_gc returns an error: the `?` returns from
\* run, past notify_gc_finished; the worker thread ends.
run_background_gc_err ==
    /\ gc_mode = "run"
    /\ pc["gc"] = "cs"
    /\ pc' = [pc EXCEPT !["gc"] = "returned"]
    /\ UNCHANGED <<gc_in_progress, compaction_in_progress, rounds, earlier>>
    /\ BarrierFrame

\* The barrier with a GC pass that may fail.
NextRun ==
    \/ NextBarrier
    \/ run_background_gc_err

SpecRun == InitBarrier /\ [][NextRun]_vars

\* The fairness of the barrier's threads; a pass is never owed an error.
SpecRunFair == SpecRun /\ BarrierFairness

\* -------------------------------------------------- claims on the barrier
\* C7: under the stated discipline (compaction: wait_for_background_gc, then
\* start_compaction; GC: start_gc, then wait_for_compaction) the GC and the
\* compaction are never inside their critical sections at the same time.
C7_GcExcludesCompaction ==
    gc_mode = "discipline" =>
        ~(pc["gc"] = "cs" /\ pc["compaction"] = "cs"
          /\ gc_in_progress /\ compaction_in_progress)

\* C8: the GC worker (GcWorker::run) never picks a victim while a compaction
\* that was in progress when it called start_gc is still in progress.
C8_GcWaitsForEarlierCompaction ==
    gc_mode = "run" => ~(pc["gc"] = "cs" /\ earlier /\ compaction_in_progress)

\* C9: between start_gc and notify_gc_finished no I/O thread is at the
\* forward index, the allocator or the user-data disk.
C9_GcStopsTheWorld ==
    gc_mode = "run" =>
        ~(gc_in_progress /\ pc["gc"] \in {"started", "cs"}
          /\ \E t \in IoThreads : pc[t] = "access")

\* wait_for_background_gc returns at once when no GC is in progress, blocks
\* when one is, and returns only from a check that found gc_in_progress false.
WaitForGcStep ==
    \A t \in GcWaiters :
        /\ (pc[t] # "passed" /\ pc'[t] = "passed") =>
               ~gc_in_progress /\ ~gc_in_progress' /\ pc[t] \in {"idle", "woken"}
        /\ (pc[t] \in {"idle", "woken"} /\ pc'[t] # pc[t]) =>
               pc'[t] = IF gc_in_progress THEN "waiting" ELSE "passed"
        /\ (pc[t] = "waiting" /\ pc'[t] # "waiting") => pc'[t] = "woken"

\* The same of wait_for_compaction and compaction_in_progress, for the GC thread.
WaitForCompactionStep ==
    /\ (pc["gc"] # "passed" /\ pc'["gc"] = "passed") =>
           ~compaction_in_progress /\ ~compaction_in_progress'
    /\ (pc["gc"] = "woken" /\ pc'["gc"] # "woken") =>
           pc'["gc"] = IF compaction_in_progress THEN "waiting" ELSE "passed"
    /\ (pc["gc"] = "waiting" /\ pc'["gc"] # "waiting") => pc'["gc"] = "woken"

\* notify_gc_finished wakes every thread blocked in wait_for_background_gc,
\* notify_compaction_finished the GC thread blocked in wait_for_compaction.
NotifyStep ==
    /\ (gc_in_progress /\ ~gc_in_progress') =>
           \A t \in GcWaiters : pc[t] = "waiting" => pc'[t] = "woken"
    /\ (compaction_in_progress /\ ~compaction_in_progress') =>
           (pc["gc"] = "waiting" => pc'["gc"] = "woken")

\* C10: wait_for_background_gc returns immediately when no GC is in progress
\* and otherwise only once gc_in_progress is false; a thread blocked in it is
\* woken by notify_gc_finished and eventually returns, the GC starting at most
\* MaxRounds times; and the same of wait_for_compaction and
\* notify_compaction_finished.
C10_WaitersReturn ==
    /\ [][WaitForGcStep /\ WaitForCompactionStep /\ NotifyStep]_vars
    /\ \A t \in GcWaiters : (pc[t] = "waiting") ~> (pc[t] = "passed")
    /\ (pc["gc"] = "waiting") ~> (pc["gc"] = "passed")

\* An I/O thread and the compaction thread, blocked during the first GC pass,
\* have been woken by its notify_gc_finished.
C10_Witness ==
    /\ rounds["gc"] = 1
    /\ ~gc_in_progress
    /\ pc["gc"] = "idle"
    /\ pc["io1"] = "woken"
    /\ pc["compaction"] = "woken"

\* C35: the GC barrier is always released: every iteration of the worker
\* that sets gc_in_progress eventually clears it and notifies the waiters,
\* also when the pass fails, so that a read or a flush blocked in
\* wait_for_background_gc eventually proceeds.
C35_GcBarrierReleased ==
    /\ (gc_mode = "run" /\ gc_in_progress) ~> ~gc_in_progress
    /\ \A t \in IoThreads : (gc_mode = "run" /\ pc[t] = "waiting") ~> (pc[t] = "passed")

====
